---- MODULE Spec2Model ----
(***************************************************************************)
(* Setup detection and trade simulation of stock-market-research-bun.      *)
(*                                                                         *)
(* Price bars are records [date, open, high, low, close, volume]; a series *)
(* is a sequence of bars.  The source indexes series from 0, TLA+ from 1:  *)
(* Bar(data, i) is the source's data[i].  Prices are integers (price       *)
(* ticks); every quotient the source computes is kept as an exact          *)
(* fraction <<n, d>>, with the IEEE specials <<1,0>> = +Infinity,          *)
(* <<-1,0>> = -Infinity and <<0,0>> = NaN.  The arithmetic cancels common  *)
(* factors before it multiplies, to stay inside the integers of TLC.       *)
(***************************************************************************)
EXTENDS Integers, Sequences, FiniteSets, TLC

VARIABLES
    data,          \* processedData: the series being worked on
    pc,            \* position of the running routine
    variant,       \* which exit routine runs: "main", "momentum" or "trend"
    entryIndex,    \* trade.entry.index
    xi,            \* loop index of the exit walk
    highestPrice,  \* running highest price record
    exit,          \* exit record of the walk
    returned,      \* value returned by the exit routine, or by the averages of calc.ts
    candidateIndex, \* index handed to the prior-move detector
    priorMove,     \* prior move the detector returned
    extension,     \* the loop that extends the recent high: its locals
    bounds,        \* value returned by calculateConsolidationBounds
    fittedLine,    \* value returned by a call of fitLine
    book,          \* the stored series, one per symbol code
    codes,         \* the codes the running invocation processes, in order
    codeIndex,     \* position of the driver's loop in codes
    cache,         \* the Map inside the CalculationCache singleton
    calls,         \* history: the calls a client has made to the cache
    scanIndex,     \* loop index i of findSetups
    potentialSetups, \* the Map of findSetups, in insertion order
    candidates,    \* history: the candidates of this scan that reached the Map
    finalSetups,   \* the list the running or the last finished scan emitted
    seen,          \* history: the lists emitted so far for each code
    maxSetups,     \* the cap findSetups is called with (0: no cap)
    driver,        \* the loop of cli.ts over symbols and what it has recorded
    batching       \* a call of processInBatches: its locals and what it has done

exitVars == <<entryIndex, xi, highestPrice, exit, returned>>
moveVars == <<candidateIndex, priorMove, extension>>
rangeVars == <<bounds, fittedLine>>
scanVars == <<book, codes, codeIndex, cache, calls, scanIndex, potentialSetups, candidates,
              finalSetups, seen, maxSetups>>
vars == <<data, pc, variant, exitVars, moveVars, rangeVars, scanVars, driver, batching>>

----------------------------------------------------------------------------
(* Numbers *)

Abs(x) == IF x < 0 THEN -x ELSE x
Max2(a, b) == IF a >= b THEN a ELSE b
Min2(a, b) == IF a <= b THEN a ELSE b

RECURSIVE GCD(_, _)
GCD(a, b) == IF b = 0 THEN a ELSE GCD(b, a % b)

INF == <<1, 0>>
NEGINF == <<-1, 0>>
NAN == <<0, 0>>

Sgn(x) == IF x > 0 THEN 1 ELSE IF x < 0 THEN -1 ELSE 0

\* the fraction n/d in lowest terms; a zero denominator gives the IEEE special
Frac(n, d) ==
    IF d = 0 THEN <<Sgn(n), 0>>
    ELSE LET g == GCD(Abs(n), Abs(d))
             s == IF d < 0 THEN -1 ELSE 1
         IN <<(s * n) \div g, (s * d) \div g>>

Num(n) == <<n, 1>>
IsNaN(x) == x[2] = 0 /\ x[1] = 0
IsFinite(x) == x[2] # 0

NumAdd(a, b) ==
    IF IsNaN(a) \/ IsNaN(b) THEN NAN
    ELSE IF ~IsFinite(a) /\ ~IsFinite(b) THEN (IF a[1] = b[1] THEN a ELSE NAN)
    ELSE IF ~IsFinite(a) THEN a
    ELSE IF ~IsFinite(b) THEN b
    ELSE LET g == GCD(a[2], b[2])
         IN Frac(a[1] * (b[2] \div g) + b[1] * (a[2] \div g), (a[2] \div g) * b[2])

NumNeg(a) == <<-a[1], a[2]>>
NumSub(a, b) == NumAdd(a, NumNeg(b))

NumMul(a, b) ==
    IF IsNaN(a) \/ IsNaN(b) THEN NAN
    ELSE IF ~IsFinite(a) \/ ~IsFinite(b)
         THEN <<Sgn(a[1]) * Sgn(b[1]), 0>>
    ELSE LET g == GCD(Abs(a[1]), b[2])
             h == GCD(Abs(b[1]), a[2])
         IN <<(a[1] \div g) * (b[1] \div h), (a[2] \div h) * (b[2] \div g)>>

NumDiv(a, b) ==
    IF IsNaN(a) \/ IsNaN(b) THEN NAN
    ELSE IF ~IsFinite(a) /\ ~IsFinite(b) THEN NAN
    ELSE IF ~IsFinite(a) THEN <<a[1] * (IF b[1] < 0 THEN -1 ELSE 1), 0>>
    ELSE IF ~IsFinite(b) THEN Num(0)
    ELSE IF b[1] = 0 THEN <<Sgn(a[1]), 0>>
    ELSE NumMul(a, <<Sgn(b[1]) * b[2], Abs(b[1])>>)

\* a < b as JavaScript evaluates it: false as soon as one side is NaN
NumLT(a, b) ==
    IF IsNaN(a) \/ IsNaN(b) THEN FALSE
    ELSE IF ~IsFinite(a) THEN a[1] < 0 /\ b # a
    ELSE IF ~IsFinite(b) THEN b[1] > 0
    ELSE LET g == GCD(a[2], b[2])
         IN a[1] * (b[2] \div g) < b[1] * (a[2] \div g)

NumEQ(a, b) == ~IsNaN(a) /\ ~IsNaN(b) /\ a = b
NumGT(a, b) == NumLT(b, a)
NumLE(a, b) == NumLT(a, b) \/ NumEQ(a, b)
NumGE(a, b) == NumLE(b, a)
NumAbs(a) == <<Abs(a[1]), a[2]>>
NumMin(a, b) == IF IsNaN(a) \/ IsNaN(b) THEN NAN ELSE IF NumLT(b, a) THEN b ELSE a
NumMax(a, b) == IF IsNaN(a) \/ IsNaN(b) THEN NAN ELSE IF NumGT(b, a) THEN b ELSE a

----------------------------------------------------------------------------
(* Series access *)

Bar(d, i) == d[i + 1]

\* Array.prototype.slice(start, end): the 0-based index range it reads,
\* from SliceFrom up to and excluding SliceTo
SliceFrom(len, start) ==
    IF start < 0 THEN Max2(len + start, 0) ELSE Min2(start, len)
SliceTo(len, end) ==
    IF end < 0 THEN Max2(len + end, 0) ELSE Min2(end, len)
SliceLen(len, start, end) ==
    Max2(SliceTo(len, end) - SliceFrom(len, start), 0)
\* the 0-based indices of the elements slice(start, end) reads
SliceIndices(len, start, end) == SliceFrom(len, start)..(SliceTo(len, end) - 1)

\* the element of a set of one element; in {F(r) : r \in {e}} TLC computes
\* e once, before F(r)
Only(S) == CHOOSE x \in S : TRUE

RECURSIVE SumOver(_, _, _)
\* sum of f[k] for k in lo..hi, as a fraction (added up by halves)
SumOver(lo, hi, f) ==
    IF lo > hi THEN Num(0)
    ELSE IF lo = hi THEN NumAdd(f[lo], Num(0))
    ELSE Only({NumAdd(l, r) : l \in {SumOver(lo, (lo + hi) \div 2, f)},
                              r \in {SumOver(((lo + hi) \div 2) + 1, hi, f)}})

----------------------------------------------------------------------------
(* util/calc.ts *)

SMAPeriod == 10
ADRWindow == 20

calculateSMA(d, index, period) ==
    IF index < period THEN INF
    ELSE LET lo == index - period + 1
         IN NumDiv(SumOver(lo, index, [k \in lo..index |-> Num(Bar(d, k).close)]),
                   Num(period))

calculateADR(d, endIndex) ==
    LET lo == SliceFrom(Len(d), endIndex - ADRWindow)
        hi == SliceTo(Len(d), endIndex) - 1
        sum == SumOver(lo, hi, [k \in lo..hi |-> Frac(Bar(d, k).high, Bar(d, k).low)])
    IN NumSub(NumDiv(sum, Num(SliceLen(Len(d), endIndex - ADRWindow, endIndex))), Num(1))

calculateDollarVolume(d, endIndex) ==
    LET lo == SliceFrom(Len(d), endIndex - ADRWindow)
        hi == SliceTo(Len(d), endIndex) - 1
        sum == SumOver(lo, hi, [k \in lo..hi |-> Num(Bar(d, k).close * Bar(d, k).volume)])
    IN NumDiv(sum, Num(ADRWindow))

----------------------------------------------------------------------------
(* Exit simulation: findHighestPriceAndExit (db/findSetups.ts and the      *)
(* trend-similarity scan) and findExit (momentum breakout scan).           *)

Undefined == [undefined |-> TRUE]
NoDate == -1   \* the empty date string ""

LargeDeclineMultiple == Frac(5, 2)

EmptyExit == [price |-> 0, index |-> 0, days |-> 0, reason |-> "", date |-> NoDate]
EmptyHighest == [index |-> 0, price |-> 0, days |-> 1, date |-> NoDate]

EntryHighest(d, e) ==
    [index |-> e, price |-> Bar(d, e).high, days |-> 0, date |-> Bar(d, e).date]

ExitAt(d, e, i, why) ==
    [price |-> Bar(d, i).close, index |-> i, days |-> i - e, reason |-> why,
     date |-> Bar(d, i).date]

HighestAt(d, e, i) ==
    [index |-> i, price |-> Bar(d, i).high, days |-> i - e, date |-> Bar(d, i).date]

\* the running maximum after bar i has been looked at
UpdateHighest(d, e, i, hp) ==
    IF Bar(d, i).high > hp.price THEN HighestAt(d, e, i) ELSE hp

BelowEntryLow(d, e, i) == Bar(d, i).close < Bar(d, e).low
BelowSMA10(d, i) == NumLT(Num(Bar(d, i).close), calculateSMA(d, i, SMAPeriod))

LargeDecline(d, i) ==
    LET dailyDecline == Frac(Bar(d, i - 1).close - Bar(d, i).close, Bar(d, i - 1).close)
        adr == calculateADR(d, i)
    IN NumGT(dailyDecline, NumMul(adr, LargeDeclineMultiple))

\* WalkExit with the two rules tried in the opposite order
WalkExitSmaFirst(d, e, i) ==
    IF BelowSMA10(d, i) THEN ExitAt(d, e, i, "SMA10")
    ELSE IF BelowEntryLow(d, e, i) THEN ExitAt(d, e, i, "low of the day")
    ELSE Undefined

\* the exit the loop body of findHighestPriceAndExit assigns at bar i, if any
WalkExit(d, e, i) ==
    IF BelowEntryLow(d, e, i) THEN ExitAt(d, e, i, "low of the day")
    ELSE IF BelowSMA10(d, i) THEN ExitAt(d, e, i, "SMA10")
    ELSE Undefined

\* the exit the loop body of findExit returns at bar i, if any
MomentumExit(d, e, i) ==
    IF BelowSMA10(d, i) THEN ExitAt(d, e, i, "momentum breakdown (SMA10)")
    ELSE IF LargeDecline(d, i) THEN ExitAt(d, e, i, "large decline")
    ELSE Undefined

\* one iteration of the loop of findHighestPriceAndExit (both copies)
WalkStep(v) ==
    /\ pc = "walk"
    /\ variant = v
    /\ xi < Len(data)
    /\ highestPrice' = UpdateHighest(data, entryIndex, xi, highestPrice)
    /\ LET x == WalkExit(data, entryIndex, xi)
       IN IF x # Undefined
          THEN exit' = x /\ pc' = "break" /\ xi' = xi
          ELSE exit' = exit /\ pc' = "walk" /\ xi' = xi + 1
    /\ UNCHANGED <<data, variant, entryIndex, returned, moveVars, rangeVars, scanVars, batching, driver>>

MainWalk == WalkStep("main")
TrendWalk == WalkStep("trend")

\* db/findSetups.ts: the loop is over, return {exit, highestPrice}
MainReturn ==
    /\ variant = "main"
    /\ pc = "break" \/ (pc = "walk" /\ xi >= Len(data))
    /\ returned' = [exit |-> exit, highestPrice |-> highestPrice]
    /\ pc' = "done"
    /\ UNCHANGED <<data, variant, entryIndex, xi, highestPrice, exit, moveVars, rangeVars, scanVars, batching,
                   driver>>

\* trend-similarity scan: an exit still undefined becomes "end of data"
TrendReturn ==
    /\ variant = "trend"
    /\ pc = "break" \/ (pc = "walk" /\ xi >= Len(data))
    /\ LET lastIndex == Len(data) - 1
           x == IF exit = Undefined
                THEN ExitAt(data, entryIndex, lastIndex, "end of data")
                ELSE exit
       IN /\ exit' = x
          /\ returned' = [exit |-> x, highestPrice |-> highestPrice]
    /\ pc' = "done"
    /\ UNCHANGED <<data, variant, entryIndex, xi, highestPrice, moveVars, rangeVars, scanVars, batching,
                   driver>>

\* one iteration of the loop of findExit, which returns from inside the loop
MomentumWalk ==
    /\ pc = "walk"
    /\ variant = "momentum"
    /\ xi < Len(data)
    /\ highestPrice' = UpdateHighest(data, entryIndex, xi, highestPrice)
    /\ LET x == MomentumExit(data, entryIndex, xi)
       IN IF x # Undefined
          THEN /\ exit' = x
               /\ returned' = [exit |-> x, highestPrice |-> highestPrice']
               /\ pc' = "done"
               /\ xi' = xi
          ELSE /\ exit' = exit
               /\ returned' = returned
               /\ pc' = "walk"
               /\ xi' = xi + 1
    /\ UNCHANGED <<data, variant, entryIndex, moveVars, rangeVars, scanVars, batching, driver>>

\* findExit: the series ended with the trade open, return undefined
MomentumNoExit ==
    /\ pc = "walk"
    /\ variant = "momentum"
    /\ xi >= Len(data)
    /\ returned' = Undefined
    /\ pc' = "done"
    /\ UNCHANGED <<data, variant, entryIndex, xi, highestPrice, exit, moveVars, rangeVars, scanVars, batching,
                   driver>>

\* the local variables as each routine initialises them
InitialHighest(v, d, e) == IF v = "main" THEN EmptyHighest ELSE EntryHighest(d, e)
InitialExit(v) == IF v = "main" THEN EmptyExit ELSE Undefined

----------------------------------------------------------------------------
(* Prior move: findPriorMove of db/findSetups.ts *)

priorMoveMaxDays == 60
priorMoveMaxWindow == 10
minADRMultiple == 4
moveEfficiencyThreshold == Frac(1, 2)
SignificantLowFraction == Frac(15, 100)
RecentMoveRelaxation == Frac(8, 10)
HighExtensionDays == 4

calculateMoveEfficiency(d, startIndex, endIndex) ==
    IF endIndex <= startIndex THEN Num(0)
    ELSE LET totalMove == Abs(Bar(d, endIndex).close - Bar(d, startIndex).close)
             totalMovement ==
                 SumOver(startIndex + 1, endIndex,
                         [k \in (startIndex + 1)..endIndex |->
                             Num(Abs(Bar(d, k).close - Bar(d, k - 1).close))])
         IN IF NumGT(totalMovement, Num(0))
            THEN NumDiv(Num(totalMove), totalMovement)
            ELSE Num(0)

RECURSIVE AbsHighLow(_, _, _, _, _)
\* the loop over [i, mid) has left r; the loop goes on over [mid, stop)
AbsHighLowFrom(d, mid, stop, r) == AbsHighLow(d, mid, stop, r[1], r[2])

\* first pass: <<highIndex, lowIndex>> after the loop over [i, stop), which
\* is the loop over [i, mid) and then the loop over [mid, stop)
AbsHighLow(d, i, stop, hi, lo) ==
    IF i >= stop THEN <<hi, lo>>
    ELSE IF i + 1 = stop
    THEN <<IF Bar(d, i).high > Bar(d, hi).high THEN i ELSE hi,
           IF Bar(d, i).low < Bar(d, lo).low THEN i ELSE lo>>
    ELSE Only({AbsHighLowFrom(d, (i + stop) \div 2, stop, r) :
                   r \in {AbsHighLow(d, i, (i + stop) \div 2, hi, lo)}})

RECURSIVE LowAfterHigh(_, _, _, _, _, _, _)
\* the loop over [i, mid) has left r; the loop goes on over [mid, stop)
LowAfterHighFrom(d, mid, stop, hi, r) == LowAfterHigh(d, mid, stop, hi, r[3], r[1], r[2])

\* the search for a significant low after the high:
\* <<recentLowIndex, significantLowFound, lowestIndex>> after the loop over
\* [i, stop), which is the loop over [i, mid) and then the loop over [mid, stop)
LowAfterHigh(d, i, stop, hi, lowest, recentLow, found) ==
    IF i >= stop THEN <<recentLow, found, lowest>>
    ELSE IF i + 1 = stop
    THEN IF Bar(d, i).low < Bar(d, lowest).low
         THEN IF NumGE(Frac(Bar(d, hi).high - Bar(d, i).low, Bar(d, i).low),
                       SignificantLowFraction)
              THEN <<i, TRUE, i>>
              ELSE <<recentLow, found, i>>
         ELSE <<recentLow, found, lowest>>
    ELSE Only({LowAfterHighFrom(d, (i + stop) \div 2, stop, hi, r) :
                   r \in {LowAfterHigh(d, i, (i + stop) \div 2, hi, lowest, recentLow,
                                       found)}})

RECURSIVE HighestFrom(_, _, _, _)
\* index of the first highest high, starting from rh, over [i, stop), which
\* is the loop over [i, mid) and then the loop over [mid, stop)
HighestFrom(d, i, stop, rh) ==
    IF i >= stop THEN rh
    ELSE IF i + 1 = stop
    THEN IF Bar(d, i).high > Bar(d, rh).high THEN i ELSE rh
    ELSE Only({HighestFrom(d, (i + stop) \div 2, stop, r) :
                   r \in {HighestFrom(d, i, (i + stop) \div 2, rh)}})

\* i < recentHighIndex + 4 && i < index
WithinExtensionDays(i, rh, stop) == i < rh + HighExtensionDays
WithinExtension(i, rh, stop) == i < rh + HighExtensionDays /\ i < stop

\* data[i]?.high > data[recentHighIndex]?.high (false beyond the last bar)
HigherHigh(d, i, rh) == i < Len(d) /\ Bar(d, i).high > Bar(d, rh).high

RECURSIVE ExtendFor(_, _, _, _, _)
\* one run of the inner for loop of the extension: <<recentHighIndex, newHigh>>
ExtendFor(d, stop, i, rh, newHigh) ==
    IF WithinExtension(i, rh, stop)
    THEN IF HigherHigh(d, i, rh)
         THEN ExtendFor(d, stop, i + 1, i, TRUE)
         ELSE ExtendFor(d, stop, i + 1, rh, newHigh)
    ELSE <<rh, newHigh>>

RECURSIVE ExtendHigh(_, _, _)
\* the while loop that extends the high while new highs appear
ExtendHigh(d, stop, rh) ==
    LET r == ExtendFor(d, stop, rh + 1, rh, FALSE)
    IN IF r[2] THEN ExtendHigh(d, stop, r[1]) ELSE r[1]

\* the legs the detector works with: abs is <<highIndex, lowIndex>> of the
\* first pass, sel the pair it finally selects
FirstPass(d, idx) ==
    AbsHighLow(d, IF idx - priorMoveMaxDays < 0 THEN 0 ELSE idx - priorMoveMaxDays,
               idx, 0, 0)

\* <<recentLowIndex, significantLowFound>> for the pair abs of the first pass
RecentLow(d, idx, abs) ==
    IF abs[1] < abs[2]
    THEN <<abs[2], TRUE>>
    ELSE LowAfterHigh(d, abs[1] + 1, idx - 5, abs[1], abs[1], abs[2], FALSE)

SelectLegs(d, idx) ==
    LET abs == FirstPass(d, idx)
        low == RecentLow(d, idx, abs)
        recentLowIndex == low[1]
        significantLowFound == low[2]
        recentHighIndex ==
            ExtendHigh(d, idx, HighestFrom(d, recentLowIndex + 1, idx, recentLowIndex))
        recentPct == Frac(Bar(d, recentHighIndex).high - Bar(d, recentLowIndex).low,
                          Bar(d, recentLowIndex).low)
        adrAtRecentHigh == calculateADR(d, recentHighIndex)
        requiredRecentMove ==
            NumMul(NumMul(adrAtRecentHigh, Num(minADRMultiple)), RecentMoveRelaxation)
    IN [abs |-> abs,
        sel |-> IF significantLowFound /\ NumGE(recentPct, requiredRecentMove)
                THEN <<recentHighIndex, recentLowIndex>>
                ELSE abs]

\* MovePct computed on the pair of the first pass
MovePctOfFirstPass(d, legs) ==
    Frac(Bar(d, legs.abs[1]).high - Bar(d, legs.abs[2]).low, Bar(d, legs.abs[2]).low)

\* the final percentage move
MovePct(d, legs) ==
    Frac(Bar(d, legs.sel[1]).high - Bar(d, legs.sel[2]).low, Bar(d, legs.sel[2]).low)

\* PriorMoveRecord with the two indices in each other's field
PriorMoveRecordSwapped(d, highIndex, lowIndex, pct) ==
    [highIndex |-> lowIndex, lowIndex |-> highIndex, pct |-> pct,
     highDate |-> Bar(d, lowIndex).date, lowDate |-> Bar(d, highIndex).date]

PriorMoveRecord(d, highIndex, lowIndex, pct) ==
    [highIndex |-> highIndex, lowIndex |-> lowIndex, pct |-> pct,
     highDate |-> Bar(d, highIndex).date, lowDate |-> Bar(d, lowIndex).date]

\* isSignificantMove under the threshold of the recent leg
isSignificantRecentMove(pct, adrAtHigh) ==
    NumGE(pct, NumMul(NumMul(adrAtHigh, Num(minADRMultiple)), RecentMoveRelaxation))

\* const isSignificantMove = pct >= requiredMove
isSignificantMove(pct, adrAtHigh) == NumGE(pct, NumMul(adrAtHigh, Num(minADRMultiple)))

\* the calculator findPriorMove hands to the cache
findPriorMoveCalc(d, idx) ==
    LET legs == SelectLegs(d, idx)
        highIndex == legs.sel[1]
        lowIndex == legs.sel[2]
        pct == MovePct(d, legs)
        adrAtHigh == calculateADR(d, highIndex)
        moveDuration == highIndex - lowIndex
        withinExplosiveWindow == moveDuration <= priorMoveMaxWindow
        moveEfficiency == calculateMoveEfficiency(d, lowIndex, highIndex)
        hasGoodEfficiency == NumGE(moveEfficiency, moveEfficiencyThreshold)
    IN IF isSignificantMove(pct, adrAtHigh) /\ highIndex > lowIndex /\ withinExplosiveWindow
          /\ hasGoodEfficiency
       THEN PriorMoveRecord(d, highIndex, lowIndex, pct)
       ELSE Undefined

----------------------------------------------------------------------------
(* Prior move of the momentum breakout scan: findPriorMove and the         *)
(* priorMove record findSetupsByAuggie builds from it                      *)

priorMoveMinDays == 3
momentumPriorMoveMaxDays == 60
momentumPriorMoveMaxWindow == 20
minPriorMoveStrength == 5

RECURSIVE BestMove(_, _, _, _, _, _, _)
\* the double loop over (lowIdx, highIdx); best is the bestMove so far and
\* adrAt[h] the value of calculateADR(data, h)
BestMove(d, idx, lowIdx, highIdx, best, bestStrength, adrAt) ==
    IF lowIdx >= idx - priorMoveMinDays THEN best
    ELSE IF highIdx >= idx \/ highIdx - lowIdx > momentumPriorMoveMaxDays
         THEN BestMove(d, idx, lowIdx + 1, lowIdx + 1 + priorMoveMinDays, best,
                       bestStrength, adrAt)
    ELSE IF highIdx - lowIdx > momentumPriorMoveMaxWindow
         THEN BestMove(d, idx, lowIdx, highIdx + 1, best, bestStrength, adrAt)
    ELSE LET low == Bar(d, lowIdx).low
             high == Bar(d, highIdx).high
             movePercent == Frac(high - low, low)
             adr == adrAt[highIdx]
             adrStrength == NumDiv(movePercent, adr)
         IN IF NumGE(adrStrength, Num(minPriorMoveStrength))
               /\ NumGT(adrStrength, bestStrength)
            THEN BestMove(d, idx, lowIdx, highIdx + 1,
                          [lowIndex |-> lowIdx, highIndex |-> highIdx,
                           strength |-> adrStrength, low |-> low, high |-> high],
                          adrStrength, adrAt)
            ELSE BestMove(d, idx, lowIdx, highIdx + 1, best, bestStrength, adrAt)

momentumFindPriorMove(d, idx) ==
    LET startIndex == Max2(0, idx - momentumPriorMoveMaxDays)
        adrAt == [h \in 0..(Len(d) - 1) |-> calculateADR(d, h)]
    IN BestMove(d, idx, startIndex, startIndex + priorMoveMinDays, Undefined, Num(0),
                adrAt)

\* priorMoveSetup of findSetupsByAuggie
momentumPriorMoveSetup(d, pm) ==
    [lowIndex |-> pm.lowIndex, highIndex |-> pm.highIndex,
     pct |-> Frac(pm.high - pm.low, pm.low),
     lowDate |-> Bar(d, pm.lowIndex).date, highDate |-> Bar(d, pm.highIndex).date]

\* while (newHighInNext3Days): the test of the loop that extends the high
ExtendWhile ==
    /\ pc = "while"
    /\ IF extension.newHighInNext3Days
       THEN /\ extension' = [extension EXCEPT !.newHighInNext3Days = FALSE,
                                              !.i = extension.recentHighIndex + 1]
            /\ pc' = "for"
       ELSE /\ extension' = extension
            /\ pc' = "extended"
    /\ UNCHANGED <<data, variant, candidateIndex, priorMove, exitVars, rangeVars, scanVars, batching,
                   driver>>

\* the test of the inner for loop and one run of its body
ExtendStep ==
    /\ pc = "for"
    /\ IF WithinExtension(extension.i, extension.recentHighIndex, candidateIndex)
       THEN /\ extension' =
                   IF HigherHigh(data, extension.i, extension.recentHighIndex)
                   THEN [recentHighIndex |-> extension.i, newHighInNext3Days |-> TRUE,
                         i |-> extension.i + 1]
                   ELSE [extension EXCEPT !.i = extension.i + 1]
            /\ pc' = "for"
       ELSE /\ extension' = extension
            /\ pc' = "while"
    /\ UNCHANGED <<data, variant, candidateIndex, priorMove, exitVars, rangeVars, scanVars, batching,
                   driver>>

\* db/findSetups.ts: findPriorMove(processedData, i) on a cold cache
MainPriorMove ==
    /\ pc = "detect"
    /\ variant = "main"
    /\ priorMove' = findPriorMoveCalc(data, candidateIndex)
    /\ pc' = "detected"
    /\ UNCHANGED <<data, variant, candidateIndex, extension, exitVars, rangeVars, scanVars, batching,
                   driver>>

\* momentum scan: findPriorMove(processedData, i), then priorMoveSetup
MomentumPriorMove ==
    /\ pc = "detect"
    /\ variant = "momentum"
    /\ LET pm == momentumFindPriorMove(data, candidateIndex)
       IN priorMove' = IF pm = Undefined THEN Undefined
                       ELSE momentumPriorMoveSetup(data, pm)
    /\ pc' = "detected"
    /\ UNCHANGED <<data, variant, candidateIndex, extension, exitVars, rangeVars, scanVars, batching,
                   driver>>

----------------------------------------------------------------------------
(* Consolidation range: util/outliers.ts and its recency-weighted variant  *)

\* Math.floor of a finite fraction
FloorNum(x) == x[1] \div x[2]

\* the sequence f with every element computed once (TLC keeps the function
\* [k \in 1..n |-> e] as a rule and computes e again at each f[k])
Stored(f) == f \o <<>>

\* [...xs].sort((a, b) => a - b) on prices: ascending and stable
SortAsc(xs) ==
    LET n == Len(xs)
        ys == Stored(xs)
        before(j, i) == ys[j] < ys[i] \/ (ys[j] = ys[i] /\ j < i)
        rank == Stored([i \in 1..n |-> Cardinality({j \in 1..n : before(j, i)})])
    IN Stored([k \in 1..n |-> ys[CHOOSE i \in 1..n : rank[i] = k - 1]])

filterOutliers(xs, multiplier) ==
    IF Len(xs) < 5 THEN xs
    ELSE LET sorted == SortAsc(xs)
             q1Index == FloorNum(NumMul(Num(Len(sorted)), Frac(1, 4)))
             q3Index == FloorNum(NumMul(Num(Len(sorted)), Frac(3, 4)))
             q1 == sorted[q1Index + 1]
             q3 == sorted[q3Index + 1]
             iqr == q3 - q1
             lowerBound == NumSub(Num(q1), NumMul(multiplier, Num(iqr)))
             upperBound == NumAdd(Num(q3), NumMul(multiplier, Num(iqr)))
         IN SelectSeq(xs, LAMBDA x : NumGE(Num(x), lowerBound) /\ NumLE(Num(x), upperBound))

\* getPercentile counting the index from the top of the array
getPercentileFromTop(sortedArray, percentile) ==
    sortedArray[Len(sortedArray) - FloorNum(NumMul(Num(Len(sortedArray)), percentile))]

getPercentile(sortedArray, percentile) ==
    sortedArray[FloorNum(NumMul(Num(Len(sortedArray)), percentile)) + 1]

TrueRange(current, previous) ==
    Max2(Max2(current.high - current.low, Abs(current.high - previous.close)),
         Abs(current.low - previous.close))

\* calculateATR of util/outliers.ts: over the last period bars of d
calculateATR(d, period) ==
    IF Len(d) < period + 1 THEN Num(0)
    ELSE LET tr == [i \in 1..period |->
                       Num(TrueRange(Bar(d, Len(d) - i), Bar(d, Len(d) - i - 1)))]
         IN NumDiv(SumOver(1, period, tr), Num(period))

calculateRangeSlope(d) ==
    IF Len(d) < 5 THEN Num(0)
    ELSE LET n == Len(d)
             midpoints == [i \in 0..(n - 1) |-> Frac(Bar(d, i).high + Bar(d, i).low, 2)]
             sumX == SumOver(0, n - 1, [i \in 0..(n - 1) |-> Num(i)])
             sumY == SumOver(0, n - 1, midpoints)
             sumXY == SumOver(0, n - 1, [i \in 0..(n - 1) |-> NumMul(Num(i), midpoints[i])])
             sumX2 == SumOver(0, n - 1, [i \in 0..(n - 1) |-> Num(i * i)])
             slope == NumDiv(NumSub(NumMul(Num(n), sumXY), NumMul(sumX, sumY)),
                             NumSub(NumMul(Num(n), sumX2), NumMul(sumX, sumX)))
             avgPrice == NumDiv(sumY, Num(n))
         IN NumDiv(slope, avgPrice)

\* the share of the candle's body that lies inside [lowerBound, upperBound]
BodyInRange(candle, upperBound, lowerBound) ==
    LET bodyHigh == Max2(candle.open, candle.close)
        bodyLow == Min2(candle.open, candle.close)
        bodySize == bodyHigh - bodyLow
        overlapHigh == NumMin(Num(bodyHigh), upperBound)
        overlapLow == NumMax(Num(bodyLow), lowerBound)
        overlapSize == NumMax(Num(0), NumSub(overlapHigh, overlapLow))
    IN NumDiv(overlapSize, Num(bodySize))

IsDoji(candle) == candle.open = candle.close

\* period: number = 14
ATRPeriod == 14

\* const rangeToATR = atr > 0 ? range / atr : 999
RangeToATROrZero(d, upperBound, lowerBound) ==
    LET range == NumSub(upperBound, lowerBound)
        atr == calculateATR(d, ATRPeriod)
    IN IF NumGT(atr, Num(0)) THEN NumDiv(range, atr) ELSE Num(0)
RangeToATR(d, upperBound, lowerBound) ==
    LET range == NumSub(upperBound, lowerBound)
        atr == calculateATR(d, ATRPeriod)
    IN IF NumGT(atr, Num(0)) THEN NumDiv(range, atr) ELSE Num(999)

\* rangeQuality, kept as the three terms the source weights by 0.4, 0.4 and
\* 0.2 and adds up: the sum itself can exceed the integers of TLC
RangeQuality(rangeToATR, densityScore, rangeSlope) ==
    <<NumSub(Num(1), NumMin(NumDiv(rangeToATR, Num(5)), Num(1))),
      densityScore,
      NumSub(Num(1), NumMin(NumDiv(rangeSlope, Frac(1, 100)), Num(1)))>>

\* util/outliers.ts
calculateConsolidationBounds(d, lowerPercentile, upperPercentile, outlierMultiplier) ==
    LET highs == [k \in 1..Len(d) |-> d[k].high]
        lows == [k \in 1..Len(d) |-> d[k].low]
        sortedHighs == SortAsc(filterOutliers(highs, outlierMultiplier))
        sortedLows == SortAsc(filterOutliers(lows, outlierMultiplier))
        upperBound == Num(getPercentile(sortedHighs, upperPercentile))
        lowerBound == Num(getPercentile(sortedLows, lowerPercentile))
        rangeToATR == RangeToATR(d, upperBound, lowerBound)
        candlesInRange ==
            Cardinality({k \in 1..Len(d) :
                            /\ ~IsDoji(d[k])
                            /\ NumGT(BodyInRange(d[k], upperBound, lowerBound), Frac(1, 2))})
        densityScore == Frac(candlesInRange, Len(d))
        rangeSlope == NumAbs(calculateRangeSlope(d))
    IN [upperBound |-> upperBound,
        lowerBound |-> lowerBound,
        rangeQuality |-> RangeQuality(rangeToATR, densityScore, rangeSlope),
        densityScore |-> densityScore,
        isValidConsolidation |->
            /\ NumLT(rangeToATR, Num(3))
            /\ NumGT(densityScore, Frac(8, 10))
            /\ NumLT(rangeSlope, Frac(5, 1000))]

\* xs (the highs or the lows) with those of the recent phase pushed twice
RecencyWeighted(xs) ==
    LET n == Len(xs)
        splitPoint == FloorNum(NumMul(Num(n), Frac(4, 10)))
    IN [k \in 1..(splitPoint + 2 * (n - splitPoint)) |->
           IF k <= splitPoint THEN xs[k]
           ELSE xs[splitPoint + ((k - splitPoint + 1) \div 2)]]

\* the variant of util/outliers.ts with recency bias
recencyConsolidationBounds(d, lowerPercentile, upperPercentile, outlierMultiplier) ==
    LET highs == RecencyWeighted([k \in 1..Len(d) |-> d[k].high])
        lows == RecencyWeighted([k \in 1..Len(d) |-> d[k].low])
        sortedHighs == SortAsc(filterOutliers(highs, outlierMultiplier))
        sortedLows == SortAsc(filterOutliers(lows, outlierMultiplier))
        upperBound == Num(getPercentile(sortedHighs, upperPercentile))
        lowerBound == Num(getPercentile(sortedLows, lowerPercentile))
        rangeToATR == RangeToATR(d, upperBound, lowerBound)
        n == Len(d)
        bodied == {i \in 0..(n - 1) : ~IsDoji(Bar(d, i))}
        recencyWeight == [i \in 0..(n - 1) |-> NumAdd(Num(1), Frac(i, n - 1))]
        contribution ==
            [i \in 0..(n - 1) |->
                IF i \in bodied
                THEN NumMul(BodyInRange(Bar(d, i), upperBound, lowerBound), recencyWeight[i])
                ELSE Num(0)]
        weightedCandlesInRange == SumOver(0, n - 1, contribution)
        totalWeight ==
            SumOver(0, n - 1, [i \in 0..(n - 1) |->
                                  IF i \in bodied THEN recencyWeight[i] ELSE Num(0)])
        densityScore == IF NumGT(totalWeight, Num(0))
                        THEN NumDiv(weightedCandlesInRange, totalWeight)
                        ELSE Num(0)
        rawSlope == calculateRangeSlope(d)
        rangeSlope == NumAbs(rawSlope)
        slopeLimit == IF NumGT(rawSlope, Num(0)) THEN Frac(12, 1000)
                      ELSE IF NumLT(rawSlope, Num(0)) THEN Frac(10, 1000)
                      ELSE Frac(8, 1000)
    IN [upperBound |-> upperBound,
        lowerBound |-> lowerBound,
        rangeQuality |-> RangeQuality(rangeToATR, densityScore, rangeSlope),
        densityScore |-> densityScore,
        isValidConsolidation |->
            /\ NumLT(rangeToATR, Frac(45, 10))
            /\ NumGT(densityScore, Frac(65, 100))
            /\ NumLT(rangeSlope, slopeLimit)]

\* calculateConsolidationBounds(consolidationData, 0.1, 0.9, 1.0)
PlainBounds ==
    /\ pc = "range"
    /\ variant = "plain"
    /\ bounds' = calculateConsolidationBounds(data, Frac(1, 10), Frac(9, 10), Num(1))
    /\ pc' = "ranged"
    /\ UNCHANGED <<data, variant, fittedLine, exitVars, moveVars, scanVars, batching, driver>>

RecencyBounds ==
    /\ pc = "range"
    /\ variant = "recency"
    /\ bounds' = recencyConsolidationBounds(data, Frac(1, 10), Frac(9, 10), Num(1))
    /\ pc' = "ranged"
    /\ UNCHANGED <<data, variant, fittedLine, exitVars, moveVars, scanVars, batching, driver>>

----------------------------------------------------------------------------
(* Quality measures of a consolidation window: db/findSetups.ts and the    *)
(* two versions of util/volatility.ts                                      *)

maxPullbackFromHigh == Frac(1, 2)
consolidationMinDays == 5
consolidationMaxDays == 60
minVolatilityContraction == Frac(15, 100)
minDollarVolume == 1000000
maxExtensionFromHigh == Frac(6, 100)
maxGapSize == Frac(5, 100)
minPriceActionQuality == Frac(65, 100)
minOverallQualityScore == 60
maxStartOffset == 10

\* Math.round
RoundNum(x) == IF IsFinite(x) THEN Num(FloorNum(NumAdd(x, Frac(1, 2)))) ELSE x

BinaryOne == 2^23

RECURSIVE BinaryDigits(_, _, _, _)
\* long division of r by q in base 2, 0 <= r < q: <<digits so far, remainder>>
\* once acc holds one bit for each power of two below BinaryOne
BinaryDigits(r, q, weight, acc) ==
    IF weight = 1 THEN <<acc, r>>
    ELSE LET bit == IF 2 * r >= q THEN 1 ELSE 0
         IN BinaryDigits(2 * r - bit * q, q, weight \div 2, 2 * acc + bit)

\* a finite x is floor + (units + e) / BinaryOne with 0 <= e < 1, e = 0 if exact
BinaryExpansion(x) ==
    LET b == BinaryDigits(x[1] % x[2], x[2], BinaryOne, 0)
    IN [floor |-> x[1] \div x[2], units |-> b[1], exact |-> b[2] = 0]

RECURSIVE SumInts(_, _, _)
\* f[lo] + ... + f[hi] for integers, by halves
SumInts(f, lo, hi) ==
    IF lo > hi THEN 0
    ELSE IF lo = hi THEN f[lo]
    ELSE LET mid == (lo + hi) \div 2
         IN SumInts(f, lo, mid) + SumInts(f, mid + 1, hi)

\* Math.round(ws[1] * xs[1] + ... + ws[n] * xs[n]) for integer weights: read
\* off the binary expansions of the xs when they settle the rounding, and
\* from the exact sum otherwise
RoundWeightedSum(xs, ws) ==
    LET n == Len(xs)
        e == [k \in 1..n |-> BinaryExpansion(xs[k])]
        whole == SumInts([k \in 1..n |-> ws[k] * e[k].floor], 1, n)
        units == SumInts([k \in 1..n |-> ws[k] * e[k].units], 1, n) + (BinaryOne \div 2)
        slack == SumInts([k \in 1..n |-> IF e[k].exact THEN 0 ELSE ws[k]], 1, n)
        exactSum == SumOver(1, n, [k \in 1..n |-> NumMul(xs[k], Num(ws[k]))])
    IN IF \A k \in 1..n : IsFinite(xs[k])
       THEN IF (units % BinaryOne) + slack <= BinaryOne
            THEN Num(whole + (units \div BinaryOne))
            ELSE RoundNum(exactSum)
       ELSE RoundNum(exactSum)

calculateVolumePattern(d, startIndex, endIndex) ==
    IF endIndex - startIndex < 5 THEN Frac(1, 2)
    ELSE LET firstHalfEnd == startIndex + ((endIndex - startIndex) \div 2)
             volume == [i \in startIndex..endIndex |-> Num(Bar(d, i).volume)]
             firstHalfAvgVolume ==
                 NumDiv(SumOver(startIndex, firstHalfEnd, volume),
                        Num(firstHalfEnd - startIndex + 1))
             secondHalfAvgVolume ==
                 NumDiv(SumOver(firstHalfEnd + 1, endIndex, volume),
                        Num(endIndex - firstHalfEnd))
         IN IF NumGT(firstHalfAvgVolume, Num(0))
            THEN NumMin(Num(1), NumDiv(secondHalfAvgVolume, firstHalfAvgVolume))
            ELSE Frac(1, 2)

calculatePriceActionQuality(d, startIndex, endIndex) ==
    IF endIndex <= startIndex THEN Num(0)
    ELSE LET totalDays == endIndex - startIndex
             days == (startIndex + 1)..endIndex
             gapSize == [i \in days |->
                            Frac(Abs(Bar(d, i).open - Bar(d, i - 1).close),
                                 Bar(d, i - 1).close)]
             gapPenalty ==
                 SumOver(startIndex + 1, endIndex,
                         [i \in days |-> IF NumGT(gapSize[i], maxGapSize)
                                         THEN gapSize[i] ELSE Num(0)])
             bodySize(i) == Abs(Bar(d, i).close - Bar(d, i).open)
             totalWick(i) ==
                 (Bar(d, i).high - Max2(Bar(d, i).open, Bar(d, i).close))
                 + (Min2(Bar(d, i).open, Bar(d, i).close) - Bar(d, i).low)
             wicky == {i \in days :
                          /\ bodySize(i) > 0
                          /\ NumGT(Frac(totalWick(i), bodySize(i)), Num(2))}
             wickPenalty == NumMul(Frac(1, 10), Num(Cardinality(wicky)))
             gapScore == NumMax(Num(0), NumSub(Num(1), NumDiv(gapPenalty, Num(totalDays))))
             wickScore == NumMax(Num(0), NumSub(Num(1), NumDiv(wickPenalty, Num(totalDays))))
         IN NumDiv(NumAdd(gapScore, wickScore), Num(2))

\* calculateATR of util/volatility.ts: the period bars that end at startIndex
volatilityATR(d, period, startIndex) ==
    IF startIndex < period THEN Num(0)
    ELSE LET tr == [i \in 0..(period - 1) |->
                       Num(TrueRange(Bar(d, startIndex - i), Bar(d, startIndex - i - 1)))]
         IN NumDiv(SumOver(0, period - 1, tr), Num(period))

\* util/volatility.ts, the version with three phases
calculateVolatilityContraction(d, startIndex, endIndex) ==
    LET totalDays == endIndex - startIndex
    IN IF totalDays < 7 THEN Num(0)
       ELSE IF totalDays < 15
       THEN LET startATR == volatilityATR(d, 3, startIndex + 2)
                endATR == volatilityATR(d, 3, endIndex)
            IN IF NumEQ(startATR, Num(0)) THEN Num(0)
               ELSE NumSub(Num(1), NumDiv(endATR, startATR))
       ELSE LET earlyPhaseEnd == startIndex + (totalDays \div 3)
                earlyPhaseATR == volatilityATR(d, 5, earlyPhaseEnd)
                midPhaseEnd == startIndex + ((totalDays * 2) \div 3)
                midPhaseATR == volatilityATR(d, 5, midPhaseEnd)
                latePhaseATR == volatilityATR(d, 5, endIndex)
                earlyToMidContraction ==
                    NumSub(Num(1), NumDiv(midPhaseATR, earlyPhaseATR))
                midToLateContraction ==
                    NumSub(Num(1), NumDiv(latePhaseATR, midPhaseATR))
            IN IF NumEQ(earlyPhaseATR, Num(0)) THEN Num(0)
               ELSE NumAdd(NumMul(earlyToMidContraction, Frac(3, 10)),
                           NumMul(midToLateContraction, Frac(7, 10)))

\* util/volatility.ts, the version that compares the first and last five days
calculateVolatilityContractionSimple(d, startIndex, endIndex) ==
    IF endIndex - startIndex < 10 THEN Num(0)
    ELSE LET startATR == volatilityATR(d, 5, startIndex + 4)
             endATR == volatilityATR(d, 5, endIndex)
         IN IF NumEQ(startATR, Num(0)) THEN Num(0)
            ELSE NumSub(Num(1), NumDiv(endATR, startATR))

\* the two builds: util/outliers.ts with the simple contraction ("plain"), and
\* the recency-weighted bounds with the three-phase contraction ("recency")
BoundsOf(v, w) ==
    IF v = "plain"
    THEN calculateConsolidationBounds(w, Frac(1, 10), Frac(9, 10), Num(1))
    ELSE recencyConsolidationBounds(w, Frac(1, 10), Frac(9, 10), Num(1))

ContractionOf(v, d, startIndex, endIndex) ==
    IF v = "plain"
    THEN calculateVolatilityContractionSimple(d, startIndex, endIndex)
    ELSE calculateVolatilityContraction(d, startIndex, endIndex)

----------------------------------------------------------------------------
(* findConsolidationRange of db/findSetups.ts                              *)

\* the day before the breakout did not close above the upper bound
\* (findConsolidationRange tests it, and findSetups tests it once more)
previousDayAnywhere(d, endIndex, upperBound) == TRUE
previousDayNotAboveRange(d, endIndex, upperBound) ==
    NumLE(Num(Bar(d, endIndex - 1).close), upperBound)

\* either the close is above the upper bound or the high is 1% above it
isBreakoutAnywhere(d, endIndex, upperBound) == TRUE
isBreakout(d, endIndex, upperBound) ==
    \/ NumGT(Num(Bar(d, endIndex).close), upperBound)
    \/ NumGT(Num(Bar(d, endIndex).high), NumMul(upperBound, Frac(101, 100)))

\* what the period loop makes of the measures of one window: b the bounds,
\* then the contraction, the volume pattern and the price action quality
\* (consolidationData.length is endIndex - adjustedStartIndex)
\* qualityScore is Math.round of 100 times the weighted sum: 30 for rangeQuality
\* (12, 12 and 6 for its three terms), 25, 20, 15 and 10
ConsolidationFrom(d, pm, adjustedStartIndex, endIndex, b, volatilityContraction, volumePattern, priceActionQuality) ==
    LET qualityScore ==
            RoundWeightedSum(<<b.rangeQuality[1], b.rangeQuality[2], b.rangeQuality[3],
                               volatilityContraction, b.densityScore,
                               volumePattern, priceActionQuality>>,
                             <<12, 12, 6, 25, 20, 15, 10>>)
        consolidationMidpoint == NumDiv(NumAdd(b.upperBound, b.lowerBound), Num(2))
        priorMoveMidpoint ==
            Frac(Bar(d, pm.highIndex).high + Bar(d, pm.lowIndex).low, 2)
        minRequiredContraction ==
            IF endIndex - adjustedStartIndex <= 15
            THEN NumMul(minVolatilityContraction, Frac(8, 10))
            ELSE minVolatilityContraction
    IN IF /\ b.isValidConsolidation
          /\ NumGT(consolidationMidpoint, priorMoveMidpoint)
          /\ NumGE(volatilityContraction, minRequiredContraction)
          /\ NumGE(priceActionQuality, minPriceActionQuality)
          /\ NumGE(qualityScore, Num(minOverallQualityScore))
          /\ isBreakout(d, endIndex, b.upperBound)
          /\ previousDayNotAboveRange(d, endIndex, b.upperBound)
       THEN [upperBound |-> b.upperBound,
             lowerBound |-> b.lowerBound,
             startIndex |-> adjustedStartIndex,
             endIndex |-> endIndex,
             volatilityContraction |-> volatilityContraction,
             rangeQuality |-> b.rangeQuality,
             densityScore |-> b.densityScore,
             qualityScore |-> qualityScore,
             breakoutPrice |-> b.upperBound]
       ELSE Undefined

\* the body of the period loop for the window [adjustedStartIndex, endIndex):
\* the consolidation it builds, or Undefined when a test skips the window
ConsolidationWindow(v, d, pm, adjustedStartIndex, endIndex) ==
    ConsolidationFrom(d, pm, adjustedStartIndex, endIndex,
                      BoundsOf(v, SubSeq(d, adjustedStartIndex + 1, endIndex)),
                      ContractionOf(v, d, adjustedStartIndex, endIndex - 1),
                      calculateVolumePattern(d, adjustedStartIndex, endIndex - 1),
                      calculatePriceActionQuality(d, adjustedStartIndex, endIndex - 1))

\* the first valid consolidation, or one with a better quality score
BetterConsolidation(best, consolidation) ==
    IF consolidation = Undefined THEN best
    ELSE IF best = Undefined \/ NumGT(consolidation.qualityScore, best.qualityScore)
         THEN consolidation
         ELSE best

RECURSIVE PeriodLoop(_, _, _, _, _, _, _)
RECURSIVE OffsetLoop(_, _, _, _, _)

\* the iterations period = lo..hi of the loop over period for one
\* adjustedStartIndex, by halves: bestConsolidation after them
PeriodLoop(v, d, pm, adjustedStartIndex, lo, hi, best) ==
    IF lo > hi THEN best
    ELSE IF lo = hi
    THEN Only({BetterConsolidation(best, consolidation) :
                   consolidation \in {ConsolidationWindow(v, d, pm, adjustedStartIndex,
                                                          adjustedStartIndex + lo)}})
    ELSE Only({PeriodLoop(v, d, pm, adjustedStartIndex, ((lo + hi) \div 2) + 1, hi, next) :
                   next \in {PeriodLoop(v, d, pm, adjustedStartIndex, lo,
                                        (lo + hi) \div 2, best)}})

\* the last period the loop reaches: it stops at consolidationMaxDays or
\* once adjustedStartIndex + period >= processedData.length - 1
LastPeriodOfData(d, adjustedStartIndex) == Len(d) - 2 - adjustedStartIndex
LastPeriod(d, adjustedStartIndex) ==
    Min2(consolidationMaxDays, Len(d) - 2 - adjustedStartIndex)

\* the loop over offset: bestConsolidation after it
OffsetLoop(v, d, pm, offset, best) ==
    IF offset > maxStartOffset THEN best
    ELSE Only({OffsetLoop(v, d, pm, offset + 1, next) :
                   next \in {PeriodLoop(v, d, pm, pm.highIndex + offset,
                                        consolidationMinDays,
                                        LastPeriod(d, pm.highIndex + offset), best)}})

\* the calculator findConsolidationRange hands to the cache
findConsolidationRangeCalc(v, d, pm) == OffsetLoop(v, d, pm, 0, Undefined)

----------------------------------------------------------------------------
(* fitLine of util/chart.ts: Theil-Sen with weighted medians               *)

Null == [null |-> TRUE]

RECURSIVE SumWeights(_, _, _)
\* sortedWeights.reduce((acc, weight) => acc + weight, 0) over positions lo..hi, by halves
SumWeights(weights, lo, hi) ==
    IF lo > hi THEN 0
    ELSE IF lo = hi THEN weights[lo]
    ELSE LET mid == (lo + hi) \div 2
         IN SumWeights(weights, lo, mid) + SumWeights(weights, mid + 1, hi)

RECURSIVE CumulativeWeights(_, _, _)
\* the values cumulativeWeight takes in the loop over positions lo..hi of
\* sortedWeights, by halves
CumulativeWeights(weights, lo, hi) ==
    IF lo = hi THEN <<weights[lo]>>
    ELSE LET mid == (lo + hi) \div 2
             left == CumulativeWeights(weights, lo, mid)
             right == CumulativeWeights(weights, mid + 1, hi)
         IN left \o Stored([k \in 1..Len(right) |-> left[Len(left)] + right[k]])

\* the order of sort((a, b) => values[a] - values[b]) on indices: ascending
\* by value, and an index stays before a later one of the same value
comesBefore(values, a, b) ==
    NumLT(values[a], values[b]) \/ (values[a] = values[b] /\ a < b)

RECURSIVE CountBefore(_, _, _, _, _)
\* how many of the sorted indices run[lo..hi] come before index b
CountBefore(values, run, b, lo, hi) ==
    IF lo > hi THEN 0
    ELSE LET mid == (lo + hi) \div 2
         IN IF comesBefore(values, run[mid], b)
            THEN (mid - lo + 1) + CountBefore(values, run, b, mid + 1, hi)
            ELSE CountBefore(values, run, b, lo, mid - 1)

RECURSIVE FindPosition(_, _, _, _)
\* the i in lo..hi with position[i] = k in an ascending position, or 0
FindPosition(position, k, lo, hi) ==
    IF lo > hi THEN 0
    ELSE LET mid == (lo + hi) \div 2
         IN IF position[mid] = k THEN mid
            ELSE IF position[mid] < k THEN FindPosition(position, k, mid + 1, hi)
            ELSE FindPosition(position, k, lo, mid - 1)

\* two sorted runs of indices merged into one
MergeRuns(values, left, right) ==
    LET leftPosition ==
            Stored([i \in 1..Len(left) |->
                       i + CountBefore(values, right, left[i], 1, Len(right))])
        rightPosition ==
            Stored([j \in 1..Len(right) |->
                       j + CountBefore(values, left, right[j], 1, Len(left))])
    IN Stored([k \in 1..(Len(left) + Len(right)) |->
                  LET i == FindPosition(leftPosition, k, 1, Len(left))
                  IN IF i > 0 THEN left[i]
                     ELSE right[FindPosition(rightPosition, k, 1, Len(right))]])

RECURSIVE SortRun(_, _, _)
\* the indices lo..hi in sorted order
SortRun(values, lo, hi) ==
    IF lo = hi THEN <<lo>>
    ELSE Only({MergeRuns(values, left, right) :
                   left \in {SortRun(values, lo, (lo + hi) \div 2)},
                   right \in {SortRun(values, ((lo + hi) \div 2) + 1, hi)}})

\* values.map((val, index) => index).sort((a, b) => values[a] - values[b]),
\* the indices counted from 1: ascending by value and stable
sortedIndices(values) ==
    IF Len(values) = 0 THEN <<>>
    ELSE Only({SortRun(vs, 1, Len(vs)) : vs \in {Stored(values)}})

\* the position at which the loop of weightedMedian returns
MedianPositionPastHalf(cumulativeWeight, totalWeight) ==
    CHOOSE i \in 1..Len(cumulativeWeight) :
        /\ 2 * cumulativeWeight[i] > totalWeight
        /\ \A j \in 1..(i - 1) : 2 * cumulativeWeight[j] <= totalWeight
MedianPosition(cumulativeWeight, totalWeight) ==
    CHOOSE i \in 1..Len(cumulativeWeight) :
        /\ 2 * cumulativeWeight[i] >= totalWeight
        /\ \A j \in 1..(i - 1) : 2 * cumulativeWeight[j] < totalWeight

weightedMedian(values, weights) ==
    LET n == Len(values)
        indices == sortedIndices(values)
        sortedValues == Stored([k \in 1..n |-> values[indices[k]]])
        sortedWeights == Stored([k \in 1..n |-> weights[indices[k]]])
        totalWeight == SumWeights(sortedWeights, 1, n)
    IN sortedValues[MedianPosition(CumulativeWeights(sortedWeights, 1, n), totalWeight)]

\* fitLine(data, keyFunc), ys being data.map(keyFunc)
fitLine(ys) ==
    LET n == Len(ys)
        m == (n * (n - 1)) \div 2
        \* the pairs (i, j), i < j, in the order the double loop pushes them
        rowStart(i) == i * (n - 1) - ((i * (i - 1)) \div 2)
        pairAt == Stored([k \in 1..m |->
                      LET i == CHOOSE r \in 0..(n - 2) :
                                   rowStart(r) <= k - 1 /\ k - 1 < rowStart(r + 1)
                      IN <<i, i + 1 + (k - 1 - rowStart(i))>>])
        slopes == Stored([k \in 1..m |->
                      Frac(ys[pairAt[k][2] + 1] - ys[pairAt[k][1] + 1],
                           pairAt[k][2] - pairAt[k][1])])
        weights == Stored([k \in 1..m |-> pairAt[k][1] + 1 + (pairAt[k][2] + 1)])
        slope == weightedMedian(slopes, weights)
        intercepts == Stored([k \in 1..n |-> NumSub(Num(ys[k]), NumMul(slope, Num(k - 1)))])
        interceptWeights == Stored([k \in 1..n |-> k])
    IN IF n < 2 THEN Null
       ELSE [slope |-> slope, intercept |-> weightedMedian(intercepts, interceptWeights)]


\* calculateADR(data, endIndex) and calculateDollarVolume(data, endIndex),
\* with the bars their slice reads
TrailingAverages ==
    /\ pc = "average"
    /\ returned' = [adr |-> calculateADR(data, candidateIndex),
                    dollarVolume |-> calculateDollarVolume(data, candidateIndex),
                    read |-> SliceIndices(Len(data), candidateIndex - ADRWindow,
                                          candidateIndex)]
    /\ pc' = "averaged"
    /\ UNCHANGED <<data, variant, entryIndex, xi, highestPrice, exit, moveVars,
                   rangeVars, scanVars, batching, driver>>

\* a call fitLine(data, (d) => d.high)
FitHighs ==
    /\ pc = "fit"
    /\ fittedLine' = fitLine([k \in 1..Len(data) |-> data[k].high])
    /\ pc' = "fitted"
    /\ UNCHANGED <<data, variant, bounds, exitVars, moveVars, scanVars, batching, driver>>

----------------------------------------------------------------------------
(* util/cache.ts and the scan of db/findSetups.ts                          *)

\* the Map of the CalculationCache; the keys `priormove:${index}`,
\* `consolrange:${highIndex}:${lowIndex}` and `exit:${index}:${entry}` are
\* the tuples <<"priormove", index>> and so on
EmptyCache == <<>>

\* getOrCalculate(key, calculator): the value it returns and the Map after it
\* (invoked: the calculator was called)
getOrCalculateDefined(c, key, calculated) ==
    IF key \in DOMAIN c /\ c[key] # Undefined
    THEN [value |-> c[key], cache |-> c, invoked |-> FALSE]
    ELSE LET value == calculated
         IN [value |-> value, cache |-> (key :> value) @@ c, invoked |-> TRUE]
getOrCalculate(c, key, calculated) ==
    IF key \in DOMAIN c THEN [value |-> c[key], cache |-> c, invoked |-> FALSE]
    ELSE LET value == calculated
         IN [value |-> value, cache |-> (key :> value) @@ c, invoked |-> TRUE]

\* the Map after clear()
clearNothing(c) == c
clear(c) == EmptyCache

RECURSIVE ExitLoop(_, _, _, _)
\* the loop of findHighestPriceAndExit from bar i on
ExitLoop(d, e, i, hp) ==
    IF i >= Len(d) THEN [exit |-> EmptyExit, highestPrice |-> hp]
    ELSE LET h == UpdateHighest(d, e, i, hp)
             x == WalkExit(d, e, i)
         IN IF x # Undefined THEN [exit |-> x, highestPrice |-> h]
            ELSE IF h = hp THEN ExitLoop(d, e, i + 1, hp)
            ELSE ExitLoop(d, e, i + 1, h)

\* the calculator findHighestPriceAndExit hands to the cache
findHighestPriceAndExitCalc(d, e, index) == ExitLoop(d, e, index + 1, EmptyHighest)

\* the body of the scan loop once a consolidation range is known: the value
\* findSetups would store in potentialSetups, or Undefined when a gate says
\* continue.  entry.adr is left out: the scan writes it and never reads it
\* if (dollarVolume < config.minDollarVolume) continue;
neverIlliquid(dollarVolume) == FALSE
tooIlliquid(dollarVolume) == NumLT(dollarVolume, Num(minDollarVolume))

\* if (!trendline) continue;
slopingTrendline(trendline) == trendline = Null \/ ~NumEQ(trendline.slope, Num(0))
noTrendline(trendline) == trendline = Null

\* the line the build's fitLine returns for the highs: the one of util/chart.ts
\* as exported (fit.given FALSE), or any other line (fit.line)
CodeFit == [given |-> FALSE]
GivenFit(line) == [given |-> TRUE, line |-> line]
FitBy(fit, highs) == IF fit.given THEN fit.line ELSE fitLine(highs)

ScanCandidate(fit, d, pm, cr) ==
    LET startIndex == cr.startIndex
        endIndex == cr.endIndex
        upperBound == cr.upperBound
        priorMoveHigh == Bar(d, pm.highIndex).high
        priorMoveLow == Bar(d, pm.lowIndex).low
        priorMoveSize == priorMoveHigh - priorMoveLow
        tooExtended ==
            NumGT(Num(Bar(d, endIndex).close),
                  NumMul(Num(priorMoveHigh), NumAdd(Num(1), maxExtensionFromHigh)))
        maxAllowedRetracement == NumMul(Num(priorMoveSize), maxPullbackFromHigh)
        minAllowedLevel == NumSub(Num(priorMoveHigh), maxAllowedRetracement)
        hasViolatedPullbackLimit ==
            \E i \in (pm.highIndex + 1)..endIndex :
                NumLT(Num(Bar(d, i).low), minAllowedLevel)
        trendline ==
            FitBy(fit, [k \in 1..(endIndex - startIndex) |-> Bar(d, startIndex + k - 1).high])
        dollarVolume == calculateDollarVolume(d, endIndex)
    IN IF /\ ~tooExtended
          /\ ~hasViolatedPullbackLimit
          /\ ~noTrendline(trendline)
          /\ ~tooIlliquid(dollarVolume)
          /\ isBreakout(d, endIndex, upperBound)
          /\ previousDayNotAboveRange(d, endIndex, upperBound)
       THEN [priorMove |-> pm,
             consolidation |->
                 [slope |-> trendline.slope,
                  days |-> endIndex - startIndex,
                  startIndex |-> startIndex,
                  endIndex |-> endIndex,
                  startDate |-> Bar(d, startIndex).date,
                  endDate |-> Bar(d, endIndex).date,
                  volatilityContraction |-> cr.volatilityContraction,
                  qualityScore |-> cr.qualityScore,
                  rangeQuality |-> cr.rangeQuality,
                  densityScore |-> cr.densityScore],
             trade |->
                 [entry |-> [price |-> Bar(d, endIndex).close,
                             index |-> endIndex,
                             trendlineBreakPrice |-> cr.breakoutPrice,
                             dollarVolume |-> dollarVolume,
                             date |-> Bar(d, endIndex).date]],
             endIndex |-> endIndex,
             upperBound |-> upperBound,
             lowerBound |-> cr.lowerBound,
             volatilityContraction |-> cr.volatilityContraction,
             qualityScore |-> cr.qualityScore,
             trendline |-> trendline]
       ELSE Undefined

\* `${consolidation.startIndex}-${consolidation.endIndex}-${trade.entry.date}`
setupKey(c) == <<c.consolidation.startIndex, c.consolidation.endIndex, c.trade.entry.date>>

\* the position of key in the Map, 0 when the Map has no such key
KeyPosition(ps, key) ==
    IF \E k \in 1..Len(ps) : ps[k].key = key
    THEN CHOOSE k \in 1..Len(ps) : ps[k].key = key
    ELSE 0

\* the current candidate has a stronger prior move than the stored one
neverStronger(existingSetup, c) == FALSE
strongerPriorMove(existingSetup, c) == NumGT(c.priorMove.pct, existingSetup.priorMove.pct)

\* potentialSetups after the candidate c has been offered to it
storeSetup(ps, c) ==
    LET k == KeyPosition(ps, setupKey(c))
    IN IF k = 0 THEN Append(ps, [key |-> setupKey(c), value |-> c])
       ELSE IF strongerPriorMove(ps[k].value, c) THEN [ps EXCEPT ![k].value = c]
       ELSE ps

\* if (maxSetups > 0 && processedCount >= maxSetups) break;
capNeverReached(cap, processedCount) == FALSE
capReached(cap, processedCount) == cap > 0 /\ processedCount >= cap

RECURSIVE FinalLoop(_, _, _, _, _, _)

\* the body of the final loop for setupData, r being what the cache answered
FinalNext(d, code, ps, k, setups, setupData, r) ==
    FinalLoop(d, code, ps, k + 1,
              Append(setups, [code |-> code,
                              priorMove |-> setupData.priorMove,
                              consolidation |-> setupData.consolidation,
                              trade |-> [entry |-> setupData.trade.entry,
                                         exit |-> r.value.exit,
                                         highestPrice |-> r.value.highestPrice]]),
              r.cache)

\* the loop over potentialSetups.entries() from entry k on: finalSetups and
\* the Map of the cache after it
FinalLoop(d, code, ps, k, setups, c) ==
    IF k > Len(ps) \/ capReached(maxSetups, Len(setups))
    THEN [finalSetups |-> setups, cache |-> c]
    ELSE FinalNext(d, code, ps, k, setups, ps[k].value,
                   getOrCalculate(c, <<"exit", ps[k].value.endIndex,
                                       ps[k].value.trade.entry.index>>,
                                  findHighestPriceAndExitCalc(
                                      d, ps[k].value.trade.entry.index,
                                      ps[k].value.endIndex)))

\* the code lists a process is started on: one code twice, and one code
\* twice with another code between
Runs(n) ==
    {<<a, a>> : a \in 1..n}
        \cup {<<p[1], p[2], p[1]>> : p \in {q \in (1..n) \X (1..n) : q[1] # q[2]}}

\* cli.ts starts: a new process, whose cache singleton is empty, is handed
\* a list of codes
Invoke ==
    /\ pc = "next"
    /\ codeIndex > Len(codes)
    /\ \E cs \in Runs(Len(book)) : codes' = cs
    /\ codeIndex' = 1
    /\ cache' = EmptyCache
    /\ UNCHANGED <<data, pc, variant, book, calls, batching, scanIndex, potentialSetups, candidates,
                   finalSetups, seen, maxSetups, exitVars, moveVars, rangeVars, driver>>

\* findSetups(code) up to its scan loop
StartScan ==
    /\ pc = "next"
    /\ codeIndex <= Len(codes)
    /\ cache' = clear(cache)
    /\ data' = book[codes[codeIndex]]
    /\ potentialSetups' = <<>>
    /\ candidates' = <<>>
    /\ finalSetups' = <<>>
    /\ scanIndex' = 0
    /\ pc' = "scan"
    /\ UNCHANGED <<variant, book, calls, batching, codes, codeIndex, seen, maxSetups, exitVars,
                   moveVars, rangeVars, driver>>

\* the scan loop's body once the cache has answered for the consolidation
\* range: the Map of the cache and the candidate, Undefined for continue
AfterRange(fit, d, pm, crr) ==
    [cache |-> crr.cache,
     candidate |-> IF crr.value = Undefined THEN Undefined
                   ELSE ScanCandidate(fit, d, pm, crr.value)]

\* the scan loop's body once the cache has answered for the prior move
AfterPriorMove(fit, v, d, pmr) ==
    IF pmr.value = Undefined THEN [cache |-> pmr.cache, candidate |-> Undefined]
    ELSE AfterRange(fit, d, pmr.value,
                    getOrCalculate(pmr.cache,
                                   <<"consolrange", pmr.value.highIndex,
                                     pmr.value.lowIndex>>,
                                   findConsolidationRangeCalc(v, d, pmr.value)))

\* the body of the scan loop at index i with the Map c
ScanBody(fit, v, d, c, i) ==
    AfterPriorMove(fit, v, d, getOrCalculate(c, <<"priormove", i>>, findPriorMoveCalc(d, i)))

\* what one iteration leaves behind, r being ScanBody's result
ScanStore(r) ==
    /\ cache' = r.cache
    /\ potentialSetups' =
           IF r.candidate = Undefined THEN potentialSetups
           ELSE storeSetup(potentialSetups, r.candidate)
    /\ candidates' =
           IF r.candidate = Undefined THEN candidates
           ELSE Append(candidates, [key |-> setupKey(r.candidate),
                                    priorMove |-> r.candidate.priorMove])

\* one iteration of the scan loop
ScanStep ==
    /\ pc = "scan"
    /\ scanIndex < Len(data)
    /\ ScanStore(ScanBody(CodeFit, variant, data, cache, scanIndex))
    /\ scanIndex' = scanIndex + 1
    /\ UNCHANGED <<data, pc, variant, book, calls, batching, codes, codeIndex, finalSetups, seen,
                   maxSetups, exitVars, moveVars, rangeVars, driver>>

\* one iteration of the scan loop in a build whose fitLine returns line
ScanStepFitting(line) ==
    /\ pc = "scan"
    /\ scanIndex < Len(data)
    /\ ScanStore(ScanBody(GivenFit(line), variant, data, cache, scanIndex))
    /\ scanIndex' = scanIndex + 1
    /\ UNCHANGED <<data, pc, variant, book, calls, batching, codes, codeIndex, finalSetups, seen,
                   maxSetups, exitVars, moveVars, rangeVars, driver>>

\* what the final loop leaves behind, r being FinalLoop's result
FinishStore(code, r) ==
    /\ finalSetups' = r.finalSetups
    /\ cache' = r.cache
    /\ seen' = [seen EXCEPT ![code] = @ \cup {r.finalSetups}]

\* the scan loop is over: the final loop, and back to the driver's loop
FinishScan ==
    /\ pc = "scan"
    /\ scanIndex >= Len(data)
    /\ FinishStore(codes[codeIndex],
                   FinalLoop(data, codes[codeIndex], potentialSetups, 1, <<>>, cache))
    /\ codeIndex' = codeIndex + 1
    /\ pc' = "next"
    /\ UNCHANGED <<data, variant, book, calls, batching, codes, scanIndex, potentialSetups, candidates,
                   maxSetups, exitVars, moveVars, rangeVars, driver>>

----------------------------------------------------------------------------
(* Bounded inputs *)

MaxPrice == 3     \* prices are drawn from 1..MaxPrice
MaxTail == 3      \* free bars after the flat lead-in of a series
LeadLen == 9      \* bars of the lead-in

Prices == 1..MaxPrice

\* bars with low <= close <= high whose range is at most one tick and whose
\* close is the low or the high (open = close, one share traded)
Shapes == {s \in [low : Prices, close : Prices, high : Prices] :
              /\ s.low <= s.close /\ s.close <= s.high
              /\ s.high - s.low <= 1
              /\ s.close \in {s.low, s.high}}
FlatShapes == {s \in Shapes : s.low = s.high}

MkBar(s, day) ==
    [date |-> day, open |-> s.close, high |-> s.high, low |-> s.low,
     close |-> s.close, volume |-> 1]

\* a lead-in of LeadLen equal bars followed by the free bars of tail
LedSeries(lead, tail) ==
    [k \in 1..(LeadLen + Len(tail)) |->
        IF k <= LeadLen THEN MkBar(lead, k - 1) ELSE MkBar(tail[k - LeadLen], k - 1)]

\* the find-setups command of cli.ts is not running
NoDriver == [phase |-> "none"]

\* no scan runs and none has run
NoScan ==
    /\ book = <<>>
    /\ codes = <<>>
    /\ codeIndex = 0
    /\ cache = EmptyCache
    /\ calls = <<>>
    /\ scanIndex = 0
    /\ potentialSetups = <<>>
    /\ candidates = <<>>
    /\ finalSetups = <<>>
    /\ seen = <<>>
    /\ maxSetups = 0
    /\ driver = NoDriver

----------------------------------------------------------------------------
(* Specification of the exit walk *)

InitExit ==
    /\ \E n \in 1..MaxTail : \E lead \in FlatShapes, tail \in [1..n -> Shapes] :
           data = LedSeries(lead, tail)
    /\ variant \in {"main", "momentum", "trend"}
    /\ entryIndex \in (LeadLen - 1)..(Len(data) - (IF variant = "main" THEN 2 ELSE 1))
    /\ xi = entryIndex + 1
    /\ highestPrice = InitialHighest(variant, data, entryIndex)
    /\ exit = InitialExit(variant)
    /\ returned = Undefined
    /\ pc = "walk"
    /\ candidateIndex = 0
    /\ priorMove = Undefined
    /\ bounds = Undefined
    /\ fittedLine = Undefined
    /\ extension = Undefined
    /\ batching = Undefined
    /\ NoScan

NextExit ==
    \/ MainWalk
    \/ MainReturn
    \/ TrendWalk
    \/ TrendReturn
    \/ MomentumWalk
    \/ MomentumNoExit

SpecExit == InitExit /\ [][NextExit]_vars

\* the exit walk of db/findSetups.ts alone
InitExitMain == InitExit /\ variant = "main"
NextExitMain == MainWalk \/ MainReturn
SpecExitMain == InitExitMain /\ [][NextExitMain]_vars

----------------------------------------------------------------------------
(* Specification of the prior-move detectors *)

MaxFree == 3      \* free bars at the start of a series
TrailLen == 6     \* equal flat bars that follow the free bars

\* the free bars followed by TrailLen equal flat bars
TrailedSeries(free, trail) ==
    [k \in 1..(Len(free) + TrailLen) |->
        IF k <= Len(free) THEN MkBar(free[k], k - 1) ELSE MkBar(trail, k - 1)]

\* a bar that closes at MaxPrice after trading one tick above it
SpikeShape == [low |-> MaxPrice, close |-> MaxPrice, high |-> MaxPrice + 1]

\* the series of free bars, and those whose second bar is the spike
MoveFamily ==
    {TrailedSeries(free, trail) :
        free \in UNION {[1..n -> Shapes] : n \in 1..MaxFree}, trail \in FlatShapes}
    \cup {TrailedSeries([free EXCEPT ![2] = SpikeShape], trail) :
              free \in [1..MaxFree -> Shapes], trail \in FlatShapes}

InitMove ==
    /\ data \in MoveFamily
    /\ variant \in {"main", "momentum"}
    /\ candidateIndex = Len(data) - 1
    /\ priorMove = Undefined
    /\ pc = "detect"
    /\ entryIndex = 0
    /\ xi = 0
    /\ highestPrice = EmptyHighest
    /\ exit = EmptyExit
    /\ returned = Undefined
    /\ bounds = Undefined
    /\ fittedLine = Undefined
    /\ extension = Undefined
    /\ batching = Undefined
    /\ NoScan

NextMove ==
    \/ MainPriorMove
    \/ MomentumPriorMove

SpecMove == InitMove /\ [][NextMove]_vars

----------------------------------------------------------------------------
(* Specification of the consolidation bounds *)

MaxLevel == 2     \* highs and lows of a window are drawn from 1..MaxLevel
MaxWin == 6       \* bars of a window

\* bars of a window: open at the low, close at the high
WinShapes == {s \in [low : 1..MaxLevel, high : 1..MaxLevel] : s.low <= s.high}

WinBar(s, day) ==
    [date |-> day, open |-> s.low, high |-> s.high, low |-> s.low,
     close |-> s.high, volume |-> 1]

ShapeCode(s) == s.low * (MaxLevel + 1) + s.high

\* the bounds depend on the bars of the early phase and on those of the recent
\* phase, not on their order inside a phase: one order per phase is drawn
PhaseOrdered(w) ==
    LET splitPoint == FloorNum(NumMul(Num(Len(w)), Frac(4, 10)))
    IN \A k \in 1..(Len(w) - 1) :
           k # splitPoint => ShapeCode(w[k]) <= ShapeCode(w[k + 1])

InitBounds ==
    /\ \E n \in 1..MaxWin : \E w \in [1..n -> WinShapes] :
           /\ PhaseOrdered(w)
           /\ data = [k \in 1..n |-> WinBar(w[k], k - 1)]
    /\ variant \in {"plain", "recency"}
    /\ pc = "range"
    /\ bounds = Undefined
    /\ fittedLine = Undefined
    /\ extension = Undefined
    /\ batching = Undefined
    /\ candidateIndex = 0
    /\ priorMove = Undefined
    /\ entryIndex = 0
    /\ xi = 0
    /\ highestPrice = EmptyHighest
    /\ exit = EmptyExit
    /\ returned = Undefined
    /\ NoScan

NextBounds ==
    \/ PlainBounds
    \/ RecencyBounds

SpecBounds == InitBounds /\ [][NextBounds]_vars

----------------------------------------------------------------------------
(* Specification of the trendline fit *)

MaxFit == 5       \* points handed to fitLine
MaxFitLevel == 3  \* highs of the points are drawn from 1..MaxFitLevel

\* a point of the fit: a bar whose prices all are h
FitPoint(h, day) ==
    [date |-> day, open |-> h, high |-> h, low |-> h, close |-> h, volume |-> 1]

InitFit ==
    /\ \E n \in 0..MaxFit : \E hs \in [1..n -> 1..MaxFitLevel] :
           data = [k \in 1..n |-> FitPoint(hs[k], k - 1)]
    /\ variant = "plain"
    /\ pc = "fit"
    /\ bounds = Undefined
    /\ fittedLine = Undefined
    /\ extension = Undefined
    /\ batching = Undefined
    /\ candidateIndex = 0
    /\ priorMove = Undefined
    /\ entryIndex = 0
    /\ xi = 0
    /\ highestPrice = EmptyHighest
    /\ exit = EmptyExit
    /\ returned = Undefined
    /\ NoScan

NextFit == FitHighs

SpecFit == InitFit /\ [][NextFit]_vars

----------------------------------------------------------------------------
(* Specification of the trailing averages *)

MaxBars == 21     \* bars of the longest series handed to the averages

\* n flat bars at MaxPrice whose first and last bars are the given shapes
AveragedSeries(n, first, last) ==
    [k \in 1..n |->
        IF k = 1 THEN MkBar(first, 0)
        ELSE IF k = n THEN MkBar(last, n - 1)
        ELSE MkBar([low |-> MaxPrice, close |-> MaxPrice, high |-> MaxPrice], k - 1)]

InitAverages ==
    /\ \E n \in (MaxBars - 2)..MaxBars : \E first \in Shapes, last \in Shapes :
           data = AveragedSeries(n, first, last)
    /\ candidateIndex \in 0..Len(data)
    /\ variant = "plain"
    /\ pc = "average"
    /\ bounds = Undefined
    /\ fittedLine = Undefined
    /\ extension = Undefined
    /\ batching = Undefined
    /\ priorMove = Undefined
    /\ entryIndex = 0
    /\ xi = 0
    /\ highestPrice = EmptyHighest
    /\ exit = EmptyExit
    /\ returned = Undefined
    /\ NoScan

NextAverages == TrailingAverages

SpecAverages == InitAverages /\ [][NextAverages]_vars

----------------------------------------------------------------------------
(* Specifications of the scan                                              *)

MaxScanLen == 19  \* bars of the longest short series
MaxRise == 1      \* ticks by which the bar after the first high may exceed it

ScanVolume == 2 * minDollarVolume     \* shares traded on each bar, short series
LongVolume == minDollarVolume \div 50 \* unit of the volumes of the long series

ScanLens == (MaxScanLen - 1)..MaxScanLen

OHLC(o, h, l, c, shares, day) ==
    [date |-> day, open |-> o, high |-> h, low |-> l, close |-> c, volume |-> shares]

\* a short series: a move from 12 to 17, a range between 16 and 17 and a
\* breakout to 18 on the bar before the last.  rise lifts the bar after the
\* first high; pre makes the last bar of the range close at 18 already
ScanShape(n, rise, pre, idx) ==
    IF idx = 0 THEN <<12, 12, 12, 12>>
    ELSE IF idx = 1 THEN <<17, 17, 17, 17>>
    ELSE IF idx = 2 /\ rise > 0 THEN <<17, 17 + rise, 17, 17 + rise>>
    ELSE IF idx = n - 3 /\ pre THEN <<17, 18, 17, 18>>
    ELSE IF idx = n - 2 THEN <<17, 18, 17, 18>>
    ELSE IF idx = n - 1 THEN <<18, 18, 18, 18>>
    ELSE IF idx % 2 = 0 THEN <<16, 17, 16, 17>>
    ELSE <<17, 17, 16, 16>>

ScanSeries(n, rise, pre) ==
    [k \in 1..n |->
        LET s == ScanShape(n, rise, pre, k - 1)
        IN OHLC(s[1], s[2], s[3], s[4], ScanVolume, k - 1)]

ScanFamily ==
    {ScanSeries(n, rise, pre) : n \in ScanLens, rise \in 0..MaxRise, pre \in BOOLEAN}

\* the driver is about to process the first of cs on the book b, with the
\* cap of --max-setups
ScanStart(b, cs, cap) ==
    /\ book = b
    /\ codes = cs
    /\ maxSetups = cap
    /\ codeIndex = 1
    /\ variant \in {"plain", "recency"}
    /\ pc = "next"
    /\ data = <<>>
    /\ cache = EmptyCache
    /\ calls = <<>>
    /\ scanIndex = 0
    /\ potentialSetups = <<>>
    /\ candidates = <<>>
    /\ finalSetups = <<>>
    /\ seen = [k \in 1..Len(b) |-> {}]
    /\ driver = NoDriver
    /\ candidateIndex = 0
    /\ priorMove = Undefined
    /\ bounds = Undefined
    /\ fittedLine = Undefined
    /\ extension = Undefined
    /\ batching = Undefined
    /\ entryIndex = 0
    /\ xi = 0
    /\ highestPrice = EmptyHighest
    /\ exit = EmptyExit
    /\ returned = Undefined

\* one invocation on one stored series
InitScan == \E s \in ScanFamily : ScanStart(<<s>>, <<1>>, 0)

NextScan ==
    \/ StartScan
    \/ ScanStep
    \/ FinishScan

SpecScan == InitScan /\ [][NextScan]_vars

\* shares traded on each bar of a thinly traded series
ThinVolume == minDollarVolume \div 20

\* the prices of the series s, ThinVolume shares traded on each bar
ThinTwin(s) == [k \in 1..Len(s) |-> [s[k] EXCEPT !.volume = ThinVolume]]

\* a short series is scanned, and then its thinly traded twin
InitVolume == \E s \in ScanFamily : ScanStart(<<s, ThinTwin(s)>>, <<1, 2>>, 0)

SpecVolume == InitVolume /\ [][NextScan]_vars

MaxCap == 2       \* --max-setups is drawn from 0..MaxCap

\* a short series is scanned under a cap
InitCap == \E s \in ScanFamily : \E cap \in 0..MaxCap : ScanStart(<<s>>, <<1>>, cap)

SpecCap == InitCap /\ [][NextScan]_vars

WideLead == 18    \* flat bars at 12 before the wide bar, or one more
MaxWideLow == 6   \* the low of the wide bar is 1 or MaxWideLow

\* a lead-in of flat bars at 12, a wide bar from 12 down to low and back, and
\* then the short series of n bars from its high on
WideSeries(lead, low, n, rise) ==
    [k \in 1..(lead + n) |->
        IF k <= lead THEN OHLC(12, 12, 12, 12, ScanVolume, k - 1)
        ELSE IF k = lead + 1 THEN OHLC(12, 12, low, 12, ScanVolume, k - 1)
        ELSE LET c == ScanShape(n, rise, FALSE, k - lead - 1)
             IN OHLC(c[1], c[2], c[3], c[4], ScanVolume, k - 1)]

WideFamily ==
    {WideSeries(lead, low, MaxScanLen, rise) :
        lead \in WideLead..(WideLead + 1), low \in {1, MaxWideLow}, rise \in 0..MaxRise}

InitWide == \E s \in WideFamily : ScanStart(<<s>>, <<1>>, 0)

SpecWide == InitWide /\ [][NextScan]_vars

RangeLen == 63    \* bars from the high on in the series with a long range, or one more

\* series whose range lasts consolidationMaxDays bars, or one bar more
RangeFamily ==
    {WideSeries(WideLead + 1, MaxWideLow, n, 0) : n \in RangeLen..(RangeLen + 1)}

InitRange == (\E s \in RangeFamily : ScanStart(<<s>>, <<1>>, 0)) /\ variant = "plain"

SpecRange == InitRange /\ [][NextScan]_vars

----------------------------------------------------------------------------
(* Specification of the scan on a series that pulls back after a breakout  *)

MaxPullback == 12   \* highest low of the bar that follows the first breakout
PullbackDays == 7   \* bars between the two breakouts

\* the lead-in, the dip and the range of a wide series up to its breakout,
\* then PullbackDays bars back in the range, the first of them with the low
\* dip, a second breakout and a last bar
PullbackSeries(dip) ==
    LET head == WideSeries(ADRWindow - 1, MaxWideLow, MaxScanLen - 1, MaxRise)
        first == Len(head) - 1
        n == first + PullbackDays + 2
    IN [k \in 1..n |->
           IF k <= first THEN head[k]
           ELSE IF k = n THEN OHLC(18, 18, 18, 18, ScanVolume, k - 1)
           ELSE IF k = n - 1 THEN OHLC(17, 18, 17, 18, ScanVolume, k - 1)
           ELSE IF k = first + 1 THEN OHLC(16, 17, dip, 17, ScanVolume, k - 1)
           ELSE IF (k - first) % 2 = 1 THEN OHLC(16, 17, 16, 17, ScanVolume, k - 1)
           ELSE OHLC(17, 17, 16, 16, ScanVolume, k - 1)]

PullbackFamily == {PullbackSeries(dip) : dip \in (MaxPullback - 1)..MaxPullback}

InitPullback == \E s \in PullbackFamily : ScanStart(<<s>>, <<1>>, 0)

SpecPullback == InitPullback /\ [][NextScan]_vars

----------------------------------------------------------------------------
(* Specification of two scans of one series under different line fits     *)

MaxSlope == 1     \* slopes of the fitted lines are drawn from 0..MaxSlope
MaxIntercept == 1 \* intercepts from 0..MaxIntercept

FitLines ==
    {[slope |-> Num(m), intercept |-> Num(b)] : m \in 0..MaxSlope, b \in 0..MaxIntercept}

\* the same series stored under two codes
InitRefit == \E s \in ScanFamily : ScanStart(<<s, s>>, <<1, 2>>, 0)

NextRefit ==
    \/ StartScan
    \/ \E line \in FitLines : ScanStepFitting(line)
    \/ FinishScan

SpecRefit == InitRefit /\ [][NextRefit]_vars

----------------------------------------------------------------------------
(* Specification of the loops of one scan, each taken step by step: the    *)
(* loop that extends the recent high, the exit walk and the scan loop.     *)
(* The code is synchronous: the extension loop takes a step when it can.   *)

\* findPriorMove has found a significant recent low and the highest high
\* after it, and is about to extend that high
InitExtend ==
    /\ data \in MoveFamily
    /\ variant = "main"
    /\ candidateIndex \in 0..(Len(data) - 1)
    /\ LET low == RecentLow(data, candidateIndex, FirstPass(data, candidateIndex))
       IN /\ low[2]
          /\ extension = [recentHighIndex |->
                              HighestFrom(data, low[1] + 1, candidateIndex, low[1]),
                          newHighInNext3Days |-> TRUE,
                          i |-> 0]
    /\ priorMove = Undefined
    /\ pc = "while"
    /\ entryIndex = 0
    /\ xi = 0
    /\ highestPrice = EmptyHighest
    /\ exit = EmptyExit
    /\ returned = Undefined
    /\ bounds = Undefined
    /\ fittedLine = Undefined
    /\ batching = Undefined
    /\ NoScan

InitHalt == InitExtend \/ InitExitMain \/ InitScan

NextHalt ==
    \/ ExtendWhile
    \/ ExtendStep
    \/ MainWalk
    \/ MainReturn
    \/ StartScan
    \/ ScanStep
    \/ FinishScan

SpecHalt == InitHalt /\ [][NextHalt]_vars /\ WF_vars(ExtendWhile \/ ExtendStep)

----------------------------------------------------------------------------
(* Specification of the prior-move detector on a long series *)

MaxDip == 16      \* latest bar of the dip in a long series
MaxPast == 20     \* candidates are drawn up to MaxPast bars past priorMoveMaxDays

\* a long series: a first bar from 10 up to 100, flat bars at 20, a dip to
\* low at bar dip, a rise by 2 a bar up to bar peak, and flat bars below
\* the peak from then on
DipSeries(dip, low, peak, n) ==
    [k \in 1..n |->
        IF k = 1 THEN OHLC(20, 100, 10, 20, ScanVolume, 0)
        ELSE IF k - 1 < dip THEN OHLC(20, 20, 20, 20, ScanVolume, k - 1)
        ELSE IF k - 1 = dip THEN OHLC(20, 20, low, 20, ScanVolume, k - 1)
        ELSE IF k - 1 <= peak
             THEN OHLC(20 + 2 * (k - 2 - dip), 20 + 2 * (k - 1 - dip),
                       20 + 2 * (k - 2 - dip), 20 + 2 * (k - 1 - dip), ScanVolume, k - 1)
        ELSE OHLC(19 + 2 * (peak - dip), 19 + 2 * (peak - dip),
                  19 + 2 * (peak - dip), 19 + 2 * (peak - dip), ScanVolume, k - 1)]

InitWindow ==
    /\ \E dip \in (MaxDip - 1)..MaxDip, low \in {5, 10, 15}, rise \in 5..6 :
           data = DipSeries(dip, low, dip + rise, priorMoveMaxDays + MaxPast + 1)
    /\ variant = "main"
    /\ candidateIndex \in (priorMoveMaxDays - MaxPast)..(priorMoveMaxDays + MaxPast)
    /\ priorMove = Undefined
    /\ pc = "detect"
    /\ entryIndex = 0
    /\ xi = 0
    /\ highestPrice = EmptyHighest
    /\ exit = EmptyExit
    /\ returned = Undefined
    /\ bounds = Undefined
    /\ fittedLine = Undefined
    /\ extension = Undefined
    /\ batching = Undefined
    /\ NoScan

NextWindow == MainPriorMove

SpecWindow == InitWindow /\ [][NextWindow]_vars

\* processes started one after another on a book of two series that differ
\* in the bar before the breakout
RescanBook ==
    <<ScanSeries(MaxScanLen - 1, 0, FALSE), ScanSeries(MaxScanLen - 1, 0, TRUE)>>

InitRescan == ScanStart(RescanBook, <<>>, 0)

NextRescan ==
    \/ Invoke
    \/ StartScan
    \/ ScanStep
    \/ FinishScan

SpecRescan == InitRescan /\ [][NextRescan]_vars

LongLen == 80     \* bars of the long series
LongLead == 18    \* flat bars before its decline

\* bars 18 to 42 of the long series as <<open, high, low, close, volume in
\* units of LongVolume>>: a decline to 48, a rise to 80, and a range around 74
\* that holds a narrower range
LongCore ==
    <<<<52, 52, 48, 48, 1>>, <<66, 70, 66, 70, 1>>, <<78, 80, 78, 80, 1>>,
      <<75, 75, 73, 75, 4>>, <<73, 73, 73, 73, 8>>, <<74, 75, 73, 74, 4>>,
      <<75, 78, 75, 78, 4>>, <<75, 75, 73, 74, 8>>, <<76, 76, 73, 74, 1>>,
      <<74, 75, 73, 74, 2>>, <<75, 75, 74, 75, 4>>, <<74, 75, 74, 74, 2>>,
      <<76, 77, 75, 76, 2>>, <<73, 73, 73, 73, 1>>, <<77, 77, 73, 77, 1>>,
      <<74, 74, 73, 74, 2>>, <<74, 75, 73, 74, 1>>, <<73, 74, 73, 74, 2>>,
      <<74, 78, 74, 75, 8>>, <<73, 75, 70, 72, 8>>, <<71, 72, 70, 72, 1>>,
      <<72, 72, 70, 70, 4>>, <<71, 71, 71, 71, 4>>, <<74, 74, 71, 71, 8>>,
      <<73, 75, 71, 71, 4>>>>

\* a flat lead-in at 70, the core, and bars at 78 from the breakout on
LongSeries ==
    [k \in 1..LongLen |->
        IF k <= LongLead THEN OHLC(70, 70, 70, 70, LongVolume, k - 1)
        ELSE IF k <= LongLead + Len(LongCore)
        THEN LET b == LongCore[k - LongLead]
             IN OHLC(b[1], b[2], b[3], b[4], b[5] * LongVolume, k - 1)
        ELSE OHLC(78, 78, 78, 78, LongVolume, k - 1)]

InitLongScan == ScanStart(<<LongSeries>>, <<1>>, 0)

SpecLongScan == InitLongScan /\ [][NextScan]_vars

----------------------------------------------------------------------------
(* The find-setups command of cli.ts: the sequential loop over the symbols  *)
(* and processBatchesConcurrently                                          *)

MaxSymbols == 3   \* the command processes 1..MaxSymbols symbol codes
MaxBatches == 2   \* --batches is drawn from 1..MaxBatches
MaxAccess == 2    \* calls of getOrCalculate in one scan
MaxKey == 1       \* the scans ask the cache for priormove:0 .. priormove:MaxKey
MaxFound == 1     \* findSetups returns 0..MaxFound

\* findSetups threw for the code
Failed == -1

\* Math.ceil(n / numBatches)
batchSize(n, numBatches) == (n + numBatches - 1) \div numBatches

\* the batches of processBatchesConcurrently for the codes 1..n:
\* codes.slice(i, i + batchSize) for i = 0, batchSize, ...
SplitBatches(n, numBatches) ==
    LET size == batchSize(n, numBatches)
    IN [j \in 1..((n + size - 1) \div size) |->
           [k \in 1..(Min2(j * size, n) - (j - 1) * size) |-> (j - 1) * size + k]]

\* the loops over the symbols: the batches of the concurrent driver, or the
\* one loop of the sequential driver (useConcurrent && codes.length > 1)
DriverLoops(n, numBatches, useConcurrent) ==
    IF useConcurrent /\ n > 1 THEN SplitBatches(n, numBatches)
    ELSE <<[k \in 1..n |-> k]>>

\* the keys the cache is asked for: they hold an index and no symbol
DriverKeys == {<<"priormove", i>> : i \in 0..MaxKey}

\* the command starts on n codes
DriverStart(n, numBatches, useConcurrent) ==
    LET loops == DriverLoops(n, numBatches, useConcurrent)
    IN [phase |-> "running",
        concurrent |-> useConcurrent /\ n > 1,
        batches |-> loops,
        position |-> [b \in DOMAIN loops |-> 0],
        state |-> [b \in DOMAIN loops |-> "ready"],
        batchSetups |-> [b \in DOMAIN loops |-> 0],
        totalSetups |-> 0,
        accesses |-> 0,
        scans |-> [c \in 1..n |-> 0],
        found |-> [c \in 1..n |-> 0],
        reads |-> {}]

\* const code = batch[i]
CurrentCode(b) == driver.batches[b][driver.position[b] + 1]

\* findSetups has no await: while one loop is inside it no other loop and no
\* timer runs
processorAlwaysFree(state) == TRUE
processorFree(state) == \A b \in DOMAIN state : state[b] # "scanning"

\* where a loop is after its catch block: at the await of the timer
AfterUncaught == "done"
AfterCatch == "sleeping"

\* a loop calls findSetups(code, ...), whose first statement clears the cache
DriverCall(b) ==
    /\ driver.phase = "running"
    /\ driver.state[b] = "ready"
    /\ processorFree(driver.state)
    /\ cache' = clear(cache)
    /\ driver' = [driver EXCEPT !.state[b] = "scanning",
                                !.accesses = 0,
                                !.scans[CurrentCode(b)] = @ + 1]

\* what getOrCalculate(key, calculator) leaves behind, r being its result
DriverRead(b, r) ==
    /\ cache' = r.cache
    /\ driver' = [driver EXCEPT !.accesses = @ + 1,
                                !.reads = @ \cup {<<CurrentCode(b), r.value.from>>}]

\* the running scan asks the cache for a key; the calculator would work on
\* the series of the scan's code
DriverAccess(b) ==
    /\ driver.phase = "running"
    /\ driver.state[b] = "scanning"
    /\ driver.accesses < MaxAccess
    /\ \E key \in DriverKeys :
           DriverRead(b, getOrCalculate(cache, key, [from |-> CurrentCode(b)]))

\* findSetups returns setupsFound: batchSetups += setupsFound in a batch,
\* totalSetups += setupsFound in the sequential loop
DriverReturn(b) ==
    /\ driver.phase = "running"
    /\ driver.state[b] = "scanning"
    /\ \E setupsFound \in 0..MaxFound :
           driver' = [driver EXCEPT
                         !.state[b] = "sleeping",
                         !.found[CurrentCode(b)] = setupsFound,
                         !.batchSetups[b] = @ + setupsFound,
                         !.totalSetups = IF driver.concurrent THEN @ ELSE @ + setupsFound]
    /\ UNCHANGED cache

\* findSetups throws and the catch block of the loop logs the error
DriverThrow(b) ==
    /\ driver.phase = "running"
    /\ driver.state[b] = "scanning"
    /\ driver' = [driver EXCEPT !.state[b] = AfterCatch,
                                !.found[CurrentCode(b)] = Failed]
    /\ UNCHANGED cache

\* the timer the loop awaits fires, and the loop goes to its next symbol
DriverWake(b) ==
    /\ driver.phase = "running"
    /\ driver.state[b] = "sleeping"
    /\ processorFree(driver.state)
    /\ driver' = [driver EXCEPT
                     !.position[b] = @ + 1,
                     !.state[b] = IF driver.position[b] + 1 < Len(driver.batches[b])
                                  THEN "ready" ELSE "done"]
    /\ UNCHANGED cache

\* every loop is over: Promise.all and batchResults.reduce in the concurrent
\* driver, the running total in the sequential one
DriverReport ==
    /\ driver.phase = "running"
    /\ \A b \in DOMAIN driver.state : driver.state[b] = "done"
    /\ driver' = [driver EXCEPT
                     !.phase = "reported",
                     !.totalSetups =
                         IF driver.concurrent
                         THEN SumInts(driver.batchSetups, 1, Len(driver.batches))
                         ELSE @]
    /\ UNCHANGED cache

DriverStep ==
    \E b \in DOMAIN driver.state :
        \/ DriverCall(b)
        \/ DriverAccess(b)
        \/ DriverReturn(b)
        \/ DriverThrow(b)
        \/ DriverWake(b)

InitDriver ==
    /\ \E n \in 1..MaxSymbols : \E numBatches \in 1..MaxBatches :
           \E useConcurrent \in BOOLEAN :
               driver = DriverStart(n, numBatches, useConcurrent)
    /\ cache = EmptyCache
    /\ calls = <<>>
    /\ book = <<>>
    /\ codes = <<>>
    /\ codeIndex = 0
    /\ scanIndex = 0
    /\ potentialSetups = <<>>
    /\ candidates = <<>>
    /\ finalSetups = <<>>
    /\ seen = <<>>
    /\ maxSetups = 0
    /\ data = <<>>
    /\ pc = "driver"
    /\ variant = "main"
    /\ candidateIndex = 0
    /\ priorMove = Undefined
    /\ bounds = Undefined
    /\ fittedLine = Undefined
    /\ extension = Undefined
    /\ batching = Undefined
    /\ entryIndex = 0
    /\ xi = 0
    /\ highestPrice = EmptyHighest
    /\ exit = EmptyExit
    /\ returned = Undefined

NextDriver ==
    /\ DriverStep \/ DriverReport
    /\ UNCHANGED <<data, pc, variant, exitVars, moveVars, rangeVars, book, calls, batching, codes,
                   codeIndex, scanIndex, potentialSetups, candidates, finalSetups,
                   seen, maxSetups>>

SpecDriver == InitDriver /\ [][NextDriver]_vars

----------------------------------------------------------------------------
(* Specification of one call of processInBatches: the items are 1..n, each
   processItem(item) returns a promise that settles either way at any time *)

MaxItems == 4       \* items handed to processInBatches
MaxBatchSize == 3   \* batchSize is one of 1..MaxBatchSize (seed.ts passes 20)

\* Math.ceil(a / b), b > 0
Ceil(a, b) == (a + b - 1) \div b

\* Array.from({ length: ceil(length / size) }, (_v, i) => arr.slice(i * size, i * size + size))
chunk(arr, size) ==
    [i \in 1..Ceil(Len(arr), size) |->
        SubSeq(arr, (i - 1) * size + 1, Min2(i * size, Len(arr)))]

Settled == {"fulfilled", "rejected"}

\* Promise.any would go on as soon as one promise of the batch is fulfilled
anyFulfilled(promises, batch) ==
    batch = <<>> \/ \E k \in 1..Len(batch) : promises[batch[k]] = "fulfilled"
\* Promise.allSettled(promises) has settled
allSettled(promises, batch) == \A k \in 1..Len(batch) : promises[batch[k]] \in Settled

\* the call: const batches = chunk(items, batchSize); i = 0
BatchingStart(n, size) ==
    [batches |-> chunk([item \in 1..n |-> item], size),
     batchSize |-> size,
     i |-> 0,
     at |-> "for",
     promises |-> [item \in 1..n |-> "none"],
     started |-> <<>>,       \* history: the calls of processItem
     errors |-> <<>>,        \* history: the calls of onError
     outcome |-> "pending"]  \* the promise processInBatches returned

BatchingUnchanged ==
    UNCHANGED <<data, pc, variant, exitVars, moveVars, rangeVars, scanVars, driver>>

\* i < batches.length: const promises = batch.map(processItem), and the await begins
BatchMap ==
    /\ pc = "batch"
    /\ batching.at = "for"
    /\ batching.i < Len(batching.batches)
    /\ LET batch == batching.batches[batching.i + 1]
       IN batching' = [batching EXCEPT
              !.promises = [item \in DOMAIN @ |->
                               IF \E k \in 1..Len(batch) : batch[k] = item
                               THEN "pending" ELSE @[item]],
              !.started = @ \o batch,
              !.at = "await"]
    /\ BatchingUnchanged

\* the promise of one item settles: the async function of seed.ts returns or throws
ItemSettle ==
    /\ pc = "batch"
    /\ \E item \in DOMAIN batching.promises : \E status \in Settled :
           /\ batching.promises[item] = "pending"
           /\ batching' = [batching EXCEPT !.promises[item] = status]
    /\ BatchingUnchanged

\* the await is over: results.forEach reports the rejected ones, then i++
BatchSettled ==
    /\ pc = "batch"
    /\ batching.at = "await"
    /\ LET batch == batching.batches[batching.i + 1]
           rejected(item) == batching.promises[item] = "rejected"
       IN /\ allSettled(batching.promises, batch)
          /\ batching' = [batching EXCEPT
                 !.errors = @ \o SelectSeq(batch, rejected),
                 !.i = @ + 1,
                 !.at = "for"]
    /\ BatchingUnchanged

\* i reached batches.length: the async function returns
BatchReturn ==
    /\ pc = "batch"
    /\ batching.at = "for"
    /\ batching.i >= Len(batching.batches)
    /\ batching' = [batching EXCEPT !.at = "done", !.outcome = "fulfilled"]
    /\ BatchingUnchanged

InitBatch ==
    /\ \E n \in 0..MaxItems : \E size \in 1..MaxBatchSize :
           batching = BatchingStart(n, size)
    /\ NoScan
    /\ driver = NoDriver
    /\ data = <<>>
    /\ pc = "batch"
    /\ variant = "main"
    /\ candidateIndex = 0
    /\ priorMove = Undefined
    /\ bounds = Undefined
    /\ fittedLine = Undefined
    /\ extension = Undefined
    /\ entryIndex = 0
    /\ xi = 0
    /\ highestPrice = EmptyHighest
    /\ exit = EmptyExit
    /\ returned = Undefined

NextBatch == BatchMap \/ ItemSettle \/ BatchSettled \/ BatchReturn

\* the event loop runs every continuation that is ready, and every request
\* of an item ends, with a result or with an error
SpecBatch == InitBatch /\ [][NextBatch]_vars /\ WF_vars(NextBatch)

----------------------------------------------------------------------------
(* Specification of a client of the cache: calls of getOrCalculate and of
   clear in any order, the calculator free to compute any value *)

MaxCalls == 4      \* calls the client makes
MaxComputed == 2   \* the calculators compute undefined or one of 1..MaxComputed

Computed == {Undefined} \cup {[computed |-> n] : n \in 1..MaxComputed}

\* cache.getOrCalculate(cacheKey, () => { ... }), the calculator being one
\* that would return calculated if it were called
CacheGet ==
    /\ pc = "cache"
    /\ Len(calls) < MaxCalls
    /\ \E key \in DriverKeys : \E calculated \in Computed :
           LET r == getOrCalculate(cache, key, calculated)
           IN /\ cache' = r.cache
              /\ calls' = Append(calls, [op |-> "getOrCalculate", key |-> key,
                                         invoked |-> r.invoked, value |-> r.value])
    /\ UNCHANGED <<data, pc, variant, exitVars, moveVars, rangeVars, book, codes,
                   codeIndex, scanIndex, potentialSetups, candidates, finalSetups,
                   seen, maxSetups, driver, batching>>

\* getCache().clear()
CacheClear ==
    /\ pc = "cache"
    /\ Len(calls) < MaxCalls
    /\ cache' = clear(cache)
    /\ calls' = Append(calls, [op |-> "clear"])
    /\ UNCHANGED <<data, pc, variant, exitVars, moveVars, rangeVars, book, codes,
                   codeIndex, scanIndex, potentialSetups, candidates, finalSetups,
                   seen, maxSetups, driver, batching>>

InitCache ==
    /\ NoScan
    /\ driver = NoDriver
    /\ data = <<>>
    /\ pc = "cache"
    /\ variant = "main"
    /\ candidateIndex = 0
    /\ priorMove = Undefined
    /\ bounds = Undefined
    /\ fittedLine = Undefined
    /\ extension = Undefined
    /\ batching = Undefined
    /\ entryIndex = 0
    /\ xi = 0
    /\ highestPrice = EmptyHighest
    /\ exit = EmptyExit
    /\ returned = Undefined

NextCache == CacheGet \/ CacheClear

SpecCache == InitCache /\ [][NextCache]_vars

----------------------------------------------------------------------------
(* Properties of the exit walk *)

ExitReasons == {"low of the day", "SMA10", "momentum breakdown (SMA10)",
                "large decline", "end of data"}

\* C1: every exit simulation ends with a populated exit (a rule's exit, or
\* "end of data" at the last bar when no rule fired); the exit is never
\* missing and never left at its empty initial value.
C1_ExitAlwaysPopulated ==
    pc = "done" =>
        /\ returned # Undefined
        /\ returned.exit # Undefined
        /\ returned.exit.reason \in ExitReasons
        /\ returned.exit.index > entryIndex \/ returned.exit.index = Len(data) - 1

C3_HighestPriceInvariant ==
    /\ [][highestPrice'.price >= highestPrice.price]_vars
    /\ [](pc = "done" /\ returned # Undefined =>
            /\ returned.highestPrice.price >= Bar(data, entryIndex).high
            /\ returned.highestPrice.index >= entryIndex)

----------------------------------------------------------------------------
(* Properties of the prior-move detectors *)

\* the main detector returned the more recent leg instead of the pair of
\* its first pass
RecentLegReturned ==
    /\ pc = "detected"
    /\ variant = "main"
    /\ priorMove # Undefined
    /\ SelectLegs(data, candidateIndex).sel # SelectLegs(data, candidateIndex).abs

\* C4: a prior move that is returned has highIndex > lowIndex, also when the
\* refinement replaced the absolute high/low by a more recent leg.
C4_HighAfterLow ==
    (pc = "detected" /\ priorMove # Undefined) => priorMove.highIndex > priorMove.lowIndex

C4_Witness == RecentLegReturned /\ priorMove.highIndex > priorMove.lowIndex

\* C5: the pct of a returned prior move is (high[highIndex] - low[lowIndex]) /
\* low[lowIndex] on the indices that are returned.
C5_PctOfSelectedLeg ==
    (pc = "detected" /\ priorMove # Undefined) =>
        priorMove.pct = Frac(Bar(data, priorMove.highIndex).high
                                - Bar(data, priorMove.lowIndex).low,
                             Bar(data, priorMove.lowIndex).low)

\* a recent leg was returned whose pct differs from that of the first pass
C5_Witness ==
    /\ RecentLegReturned
    /\ priorMove.pct # MovePctOfFirstPass(data, SelectLegs(data, candidateIndex))

C22_SoftADR ==
    pc = "averaged" =>
        /\ candidateIndex < ADRWindow => returned.adr = Num(0)
        /\ returned.read \subseteq (candidateIndex - ADRWindow)..(candidateIndex - 1)

\* the prior moves the scan loop has found
PriorMovesFound ==
    {cache[key] : key \in {k \in DOMAIN cache : k[1] = "priormove"}} \ {Undefined}

\* the consolidations the period loop builds for the windows of a prior move
WindowsOf(v, d, pm) ==
    UNION {{ConsolidationWindow(v, d, pm, pm.highIndex + offset,
                                pm.highIndex + offset + period) :
                period \in consolidationMinDays..LastPeriod(d, pm.highIndex + offset)} :
           offset \in 0..maxStartOffset} \ {Undefined}

\* those of them that also pass the gates of the scan loop
PassingWindows(v, d, pm) ==
    {w \in WindowsOf(v, d, pm) : ScanCandidate(CodeFit, d, pm, w) # Undefined}

\* w is the best of ws: no other has a higher qualityScore, and among the
\* ones with its score it is the first the two loops reach
BestWindow(w, ws) ==
    \A u \in ws :
        \/ NumLT(u.qualityScore, w.qualityScore)
        \/ /\ u.qualityScore = w.qualityScore
           /\ \/ w.startIndex < u.startIndex
              \/ w.startIndex = u.startIndex /\ w.endIndex <= u.endIndex

\* C23: once the scan loop is over, every prior move with a window that passes
\* all gates has a candidate, and its consolidation is the best passing window
C23_BestPassingWindow ==
    (pc = "scan" /\ scanIndex = Len(data)) =>
        \A pm \in PriorMovesFound :
            LET passing == PassingWindows(variant, data, pm)
            IN passing # {} =>
                   \E k \in 1..Len(candidates) :
                       /\ candidates[k].priorMove = pm
                       /\ \E w \in passing :
                              /\ candidates[k].key[1] = w.startIndex
                              /\ candidates[k].key[2] = w.endIndex
                              /\ BestWindow(w, passing)

----------------------------------------------------------------------------
(* Properties of the consolidation bounds *)

\* C6: for every window of bars with high >= low the bounds that are returned
\* have upperBound >= lowerBound, although highs and lows are filtered for
\* outliers independently and read at different percentiles.
C6_UpperNotBelowLower ==
    pc = "ranged" => NumGE(bounds.upperBound, bounds.lowerBound)

\* the outlier filter removed a high and a low of the window before the
\* percentiles were read
C6_Witness ==
    /\ pc = "ranged"
    /\ variant = "plain"
    /\ LET highs == [k \in 1..Len(data) |-> data[k].high]
           lows == [k \in 1..Len(data) |-> data[k].low]
       IN /\ Len(filterOutliers(highs, Num(1))) < Len(highs)
          /\ Len(filterOutliers(lows, Num(1))) < Len(lows)
    /\ NumGE(bounds.upperBound, bounds.lowerBound)

\* the bars of the window with a body, and those of them whose body lies
\* inside the returned bounds by more than half
BodiedBars == {k \in 1..Len(data) : ~IsDoji(data[k])}
BodiesInRange ==
    {k \in BodiedBars :
        NumGT(BodyInRange(data[k], bounds.upperBound, bounds.lowerBound), Frac(1, 2))}

\* C26: densityScore is the number of bars with a body that lies inside the
\* bounds by more than half, divided by the number of bars with a body; it
\* lies in [0, 1] and is 1 when every such body lies inside the bounds
C26_DensityOfBodies ==
    (pc = "ranged" /\ BodiedBars # {}) =>
        /\ NumEQ(bounds.densityScore,
                 Frac(Cardinality(BodiesInRange), Cardinality(BodiedBars)))
        /\ NumGE(bounds.densityScore, Num(0))
        /\ NumLE(bounds.densityScore, Num(1))

----------------------------------------------------------------------------
(* Properties of the scan *)

\* the bar of the running series before the entry bar of the emitted setup s
PreviousBar(s) == Bar(data, s.trade.entry.index - 1)

EmittedSetups == {finalSetups[k] : k \in 1..Len(finalSetups)}

\* C7: no setup is emitted whose bar just before the entry bar already closes
\* above the upper bound of its consolidation (the bound the scan keeps as
\* the entry's trendlineBreakPrice).
C7_PreviousBarInsideRange ==
    \A s \in EmittedSetups :
        NumLE(Num(PreviousBar(s).close), s.trade.entry.trendlineBreakPrice)

\* a scan has emitted a setup whose previous bar closed exactly at the bound
C7_Witness ==
    /\ pc = "next"
    /\ \E s \in EmittedSetups :
           NumEQ(Num(PreviousBar(s).close), s.trade.entry.trendlineBreakPrice)

\* the key of the emitted setup s
EmittedKey(s) == <<s.consolidation.startIndex, s.consolidation.endIndex, s.trade.entry.date>>

\* C9: the emitted list holds at most one setup per key (consolidation
\* startIndex, consolidation endIndex, entry date), and the setup kept for a
\* key carries the largest PriorMove.pct among the candidates of that key.
C9_OnePerKeyStrongestKept ==
    /\ \A j, k \in 1..Len(finalSetups) :
           EmittedKey(finalSetups[j]) = EmittedKey(finalSetups[k]) => j = k
    /\ pc = "next" =>
           \A s \in EmittedSetups :
               \A k \in 1..Len(candidates) :
                   candidates[k].key = EmittedKey(s)
                       => NumGE(s.priorMove.pct, candidates[k].priorMove.pct)

\* two candidates with one key and different prior moves, the stronger kept
C9_Witness ==
    /\ pc = "next"
    /\ \E s \in EmittedSetups :
           \E k \in 1..Len(candidates) :
               /\ candidates[k].key = EmittedKey(s)
               /\ NumLT(candidates[k].priorMove.pct, s.priorMove.pct)

\* C8: every scan of a series emits the same ordered list of setups, be it
\* the first scan of a process, a repeated one, or one that follows the scan
\* of another symbol: at most one list has ever been emitted for a code.
C8_RescanSameList == \A c \in DOMAIN seen : Cardinality(seen[c]) <= 1

\* a code was scanned, then another code, then the first again, and the
\* first code has setups
C8_Witness ==
    /\ pc = "next"
    /\ Len(codes) = 3
    /\ codeIndex > Len(codes)
    /\ codes[1] # codes[2]
    /\ finalSetups # <<>>
    /\ seen[codes[1]] = {finalSetups}

\* the emitted setup t lies inside the emitted setup s: its prior-move window
\* [lowIndex, highIndex] and its consolidation window [startIndex, endIndex]
\* are inside those of s
ContainedIn(t, s) ==
    /\ s.priorMove.lowIndex <= t.priorMove.lowIndex
    /\ t.priorMove.highIndex <= s.priorMove.highIndex
    /\ s.consolidation.startIndex <= t.consolidation.startIndex
    /\ t.consolidation.endIndex <= s.consolidation.endIndex

\* C10: no emitted setup has prior-move and consolidation windows that lie
\* fully inside the windows of a setup emitted before it in the same scan.
C10_NoContainedSetup ==
    \A j, k \in 1..Len(finalSetups) :
        j < k => ~ContainedIn(finalSetups[k], finalSetups[j])

\* C14: within one scan the emitted setups are in ascending order of entry
\* index.
C14_AscendingEntryIndex ==
    \A j, k \in 1..Len(finalSetups) :
        j < k => finalSetups[j].trade.entry.index <= finalSetups[k].trade.entry.index

\* the bars of the running series that the trailing 20-bar window before the
\* entry bar of the emitted setup s holds
TrailingBars(s) ==
    Max2(0, s.trade.entry.index - ADRWindow)..(s.trade.entry.index - 1)

\* close times volume summed over the trailing window of s
TrailingDollars(s) ==
    SumInts([k \in TrailingBars(s) |-> Bar(data, k).close * Bar(data, k).volume],
            Max2(0, s.trade.entry.index - ADRWindow), s.trade.entry.index - 1)

\* C11: no setup is emitted whose mean of close times volume over the
\* trailing 20-bar window before the entry bar is below minDollarVolume.
C11_DollarVolumeGate ==
    \A s \in EmittedSetups :
        TrailingDollars(s) >= Cardinality(TrailingBars(s)) * minDollarVolume

\* a series has emitted a setup and its thinly traded twin, scanned after it
\* with the same prices, has emitted none
C11_Witness ==
    /\ pc = "next"
    /\ codeIndex = 3
    /\ seen[1] # {<<>>}
    /\ seen[2] = {<<>>}
    /\ book[2] = ThinTwin(book[1])

\* maxVolatility of the momentum breakout scan, the only maximum of the ADR
\* that the configuration holds
maxVolatility == Frac(3, 10)

\* trade.entry.adr of the emitted setup s: calculateADR(processedData, endIndex)
EntryADR(s) == calculateADR(data, s.trade.entry.index)

\* C12: no setup is emitted whose ADR at the entry bar is above the maximum.
C12_VolatilityGate ==
    \A s \in EmittedSetups : ~NumGT(EntryADR(s), maxVolatility)

\* the keys under which the cache holds the exit walks of the running scan
ExitKeys == {key \in DOMAIN cache : key[1] = "exit"}

\* C13: under a cap maxSetups > 0 a scan emits at most maxSetups setups and
\* walks no stored candidate after the cap is reached (it emits the first
\* maxSetups of them, or all of them when they are fewer); with maxSetups = 0
\* every stored candidate is emitted.
C13_CapOnSetups ==
    /\ maxSetups > 0 => Len(finalSetups) <= maxSetups
    /\ (pc = "next" /\ codeIndex > 1) =>
           /\ Len(finalSetups) =
                  IF maxSetups > 0 THEN Min2(maxSetups, Len(potentialSetups))
                  ELSE Len(potentialSetups)
           /\ Cardinality(ExitKeys) <= Len(finalSetups)

\* a scan under a cap has stored more candidates than the cap and has
\* emitted as many setups as the cap
C13_Witness ==
    /\ pc = "next"
    /\ codeIndex > 1
    /\ maxSetups > 0
    /\ Len(potentialSetups) > maxSetups
    /\ Len(finalSetups) = maxSetups

\* C17: the consolidation of every emitted setup, and of every setup the
\* scan holds for emission, lasts at least consolidationMinDays and at most
\* consolidationMaxDays bars (endIndex - startIndex); no shorter and no longer
\* window makes a setup.
C17_ConsolidationDays ==
    \A c \in {s.consolidation : s \in EmittedSetups}
               \cup {potentialSetups[k].value.consolidation : k \in 1..Len(potentialSetups)} :
        /\ consolidationMinDays <= c.endIndex - c.startIndex
        /\ c.endIndex - c.startIndex <= consolidationMaxDays

\* a setup whose consolidation lasts exactly consolidationMaxDays bars has
\* been emitted
C17_Witness ==
    /\ pc = "next"
    /\ \E s \in EmittedSetups :
           s.consolidation.endIndex - s.consolidation.startIndex = consolidationMaxDays

\* C18: the consolidation of every emitted setup starts strictly after
\* the high bar of its prior move: consolidation.startIndex > priorMove.highIndex.
C18_StartsAfterHigh ==
    \A s \in EmittedSetups : s.consolidation.startIndex > s.priorMove.highIndex

\* C20: for candidate index i the prior move the detector returns has its
\* low and its high inside [max(0, i - priorMoveMaxDays), i), the bars the
\* scan for the absolute high and low covers, and its high before bar i.
C20_PriorMoveInsideWindow ==
    (pc = "detected" /\ variant = "main" /\ priorMove # Undefined) =>
        /\ Max2(0, candidateIndex - priorMoveMaxDays) <= priorMove.lowIndex
        /\ priorMove.lowIndex < candidateIndex
        /\ Max2(0, candidateIndex - priorMoveMaxDays) <= priorMove.highIndex
        /\ priorMove.highIndex < candidateIndex

----------------------------------------------------------------------------
(* Properties of the trendline fit *)

\* the highs handed to fitLine, point k of the code being FitYs[k + 1]
FitYs == [k \in 1..Len(data) |-> data[k].high]

\* the pairs (i, j), i < j, of the points, each with its slope and weight
PairSlopes ==
    {[of |-> <<i, j>>,
      value |-> Frac(FitYs[j + 1] - FitYs[i + 1], j - i),
      weight |-> (i + 1) + (j + 1)] :
        <<i, j>> \in {q \in (0..(Len(data) - 1)) \X (0..(Len(data) - 1)) : q[1] < q[2]}}

\* the points, each with its intercept under a slope and its weight
PointIntercepts(slope) ==
    {[of |-> k,
      value |-> NumSub(Num(FitYs[k + 1]), NumMul(slope, Num(k))),
      weight |-> k + 1] : k \in 0..(Len(data) - 1)}

RECURSIVE WeightOf(_)
\* the weights of a set of weighted values added up
WeightOf(items) ==
    IF items = {} THEN 0
    ELSE LET item == CHOOSE x \in items : TRUE
         IN item.weight + WeightOf(items \ {item})

\* the weight of the values of items up to v
WeightUpTo(items, v) == WeightOf({x \in items : NumLE(x.value, v)})

\* v is the first value of items, in ascending order, at which the cumulative
\* weight reaches half the total weight
IsWeightedMedian(items, v) ==
    /\ \E x \in items : x.value = v
    /\ 2 * WeightUpTo(items, v) >= WeightOf(items)
    /\ \A x \in items : NumLT(x.value, v) => 2 * WeightUpTo(items, x.value) < WeightOf(items)

----------------------------------------------------------------------------
(* Properties of the driver *)

\* C15: no scan reads a cache entry computed from the series of another
\* symbol: every value the cache hands to a scan was computed in that scan.
C15_NoForeignCacheRead == \A r \in driver.reads : r[1] = r[2]

\* two loops ran side by side, and scans of two symbols both read the cache
C15_Witness ==
    /\ driver.phase = "reported"
    /\ Len(driver.batches) > 1
    /\ \E r, t \in driver.reads : r[1] # t[1]

\* the codes whose scan returned
Succeeded == {c \in DOMAIN driver.found : driver.found[c] # Failed}

\* C16: a symbol is never scanned twice, and when the command reports, in the
\* sequential and in the concurrent driver alike, every symbol has been
\* scanned exactly once, whichever scans threw, and the total is the sum of
\* the counts of the scans that returned.
C16_FailuresContained ==
    driver.phase # "none" =>
        /\ \A c \in DOMAIN driver.scans : driver.scans[c] <= 1
        /\ driver.phase = "reported" =>
               /\ \A c \in DOMAIN driver.scans : driver.scans[c] = 1
               /\ driver.totalSetups =
                      SumInts([c \in DOMAIN driver.found |->
                                  IF c \in Succeeded THEN driver.found[c] ELSE 0],
                              1, Len(driver.found))

\* the command has reported after a scan threw in a loop whose next symbol,
\* and a symbol of another loop, were scanned and returned setups
C16_Witness ==
    /\ driver.phase = "reported"
    /\ Len(driver.batches) > 1
    /\ driver.found[1] = Failed
    /\ driver.found[2] > 0
    /\ driver.found[Len(driver.found)] > 0
    /\ driver.batches[1] = <<1, 2>>

\* the entry of the Map the emitted setup s was built from
StoredSetup(s) ==
    potentialSetups[KeyPosition(potentialSetups, EmittedKey(s))].value

\* C24: the entry bar of every emitted setup closes above the upper bound the
\* scan stored for it or has its high more than 1% above that bound, and the
\* entry records the close of that bar as price and that bound as break price
C24_EntryAtBreakout ==
    \A s \in EmittedSetups :
        LET b == Bar(data, s.trade.entry.index)
            upperBound == StoredSetup(s).upperBound
        IN /\ \/ NumGT(Num(b.close), upperBound)
              \/ NumGT(NumMul(Num(b.high), Num(100)), NumMul(upperBound, Num(101)))
           /\ s.trade.entry.price = b.close
           /\ s.trade.entry.trendlineBreakPrice = upperBound

\* a scan has emitted a setup whose entry bar closes above the stored bound
C24_Witness ==
    /\ pc = "next"
    /\ \E s \in EmittedSetups :
           NumGT(Num(Bar(data, s.trade.entry.index).close), StoredSetup(s).upperBound)

\* what a scan accepted: the keys, entries and exits of the list it emitted
Accepted(setups) ==
    {[key |-> EmittedKey(setups[k]), entry |-> setups[k].trade.entry,
      exit |-> setups[k].trade.exit] : k \in 1..Len(setups)}

\* C25: two scans of the same series whose line fits return different lines
\* accept the same setups
C25_FitIsCosmetic ==
    (pc = "next" /\ codeIndex > Len(codes) /\ book[1] = book[2]) =>
        \A a \in seen[1], b \in seen[2] : Accepted(a) = Accepted(b)

\* two scans of one series have emitted setups that differ in the fitted slope
C25_Witness ==
    /\ pc = "next"
    /\ codeIndex > Len(codes)
    /\ book[1] = book[2]
    /\ \E a \in seen[1], b \in seen[2] :
           /\ Len(a) > 0
           /\ Len(b) = Len(a)
           /\ a[1].consolidation.slope # b[1].consolidation.slope

\* the windows of the candidates lie within maxStartOffset bars of the high
\* of their prior move, last at most consolidationMaxDays and end before the
\* last bar
SearchBounded ==
    \A k \in 1..Len(candidates) :
        /\ candidates[k].key[1] <= candidates[k].priorMove.highIndex + maxStartOffset
        /\ candidates[k].key[2] - candidates[k].key[1] <= consolidationMaxDays
        /\ candidates[k].key[2] < Len(data) - 1

\* C27: the loop that extends the high comes to its end and keeps the high
\* index below the candidate index; every run of the exit walk and of the
\* scan loop moves its index one bar on and never past the end of the
\* series; the search looks at a bounded set of windows
C27_ScanTerminates ==
    /\ [](extension # Undefined => extension.recentHighIndex < candidateIndex)
    /\ (pc = "while") ~> (pc = "extended")
    /\ [][(pc = "walk" /\ pc' = "walk") => xi' = xi + 1]_vars
    /\ [][(pc = "scan" /\ pc' = "scan") => scanIndex' = scanIndex + 1]_vars
    /\ [](xi <= Len(data) /\ scanIndex <= Len(data))
    /\ []SearchBounded

\* the extension loop is over after its for loop has looked at two bars or more
C27_Witness ==
    /\ pc = "extended"
    /\ extension.i > extension.recentHighIndex + 2

\* the consolidations findConsolidationRange has returned in this scan
RangesReturned ==
    {cache[key] : key \in {k \in DOMAIN cache : k[1] = "consolrange"}} \ {Undefined}

----------------------------------------------------------------------------
(* Properties of the cache *)

\* the last clear() before call j (0: none)
LastClear(j) ==
    LET cs == {i \in 1..(j - 1) : calls[i].op = "clear"}
    IN IF cs = {} THEN 0 ELSE CHOOSE i \in cs : \A k \in cs : k <= i

\* the first getOrCalculate since then with the key of call j
FirstCall(j) ==
    LET same == {i \in (LastClear(j) + 1)..j :
                    calls[i].op = "getOrCalculate" /\ calls[i].key = calls[j].key}
    IN CHOOSE i \in same : \A k \in same : i <= k

\* C29: between two calls of clear() the calculator runs only in the first
\* getOrCalculate of each key, every later call with that key returns the
\* value computed then (undefined included), and the first call for a key
\* after a clear() runs the calculator again.
C29_OncePerKey ==
    \A j \in 1..Len(calls) :
        calls[j].op = "getOrCalculate" =>
            /\ calls[j].invoked <=> FirstCall(j) = j
            /\ calls[j].value = calls[FirstCall(j)].value

\* an undefined value was computed and is returned again without the
\* calculator, then clear() is called and the calculator runs again
C29_Witness ==
    /\ Len(calls) = 4
    /\ calls[1].op = "getOrCalculate" /\ calls[1].value = Undefined
    /\ calls[2].op = "getOrCalculate" /\ calls[2].key = calls[1].key
    /\ ~calls[2].invoked /\ calls[2].value = Undefined
    /\ calls[3].op = "clear"
    /\ calls[4].op = "getOrCalculate" /\ calls[4].key = calls[1].key
    /\ calls[4].invoked /\ calls[4].value # Undefined

----------------------------------------------------------------------------
(* Properties of processInBatches *)

ItemsOf(batch) == {batch[k] : k \in 1..Len(batch)}
Occurrences(seq, x) == Cardinality({k \in 1..Len(seq) : seq[k] = x})
InFlight == {item \in DOMAIN batching.promises : batching.promises[item] = "pending"}

\* no item of a batch is started before every item of the batch before it has settled
BatchAfterBatch ==
    \A k \in 1..(Len(batching.batches) - 1) :
        (\E item \in ItemsOf(batching.batches[k + 1]) : batching.promises[item] # "none")
            => \A item \in ItemsOf(batching.batches[k]) : batching.promises[item] \in Settled

\* onError was called once for each rejected item and for no other item
ErrorsReported ==
    \A item \in DOMAIN batching.promises :
        Occurrences(batching.errors, item) =
            IF batching.promises[item] = "rejected" THEN 1 ELSE 0

\* every item was handed to processItem once, and its promise has settled
AttemptedOnce ==
    \A item \in DOMAIN batching.promises :
        /\ Occurrences(batching.started, item) = 1
        /\ batching.promises[item] \in Settled

\* C30: a batch starts only when the batch before it has settled, at most
\* batchSize items are in flight, no item is started twice or reported twice;
\* the call reaches its end whatever the items did, and then every item was
\* attempted exactly once and onError was called exactly once for each
\* rejected item.
C30_BatchAfterBatch ==
    /\ [](pc = "batch" =>
            /\ BatchAfterBatch
            /\ Cardinality(InFlight) <= batching.batchSize
            /\ \A item \in DOMAIN batching.promises :
                   /\ Occurrences(batching.started, item) <= 1
                   /\ Occurrences(batching.errors, item) <= 1
                   /\ Occurrences(batching.errors, item) = 1
                          => batching.promises[item] = "rejected"
            /\ batching.outcome = "fulfilled" => ErrorsReported /\ AttemptedOnce)
    /\ <>(pc = "batch" /\ batching.outcome = "fulfilled")

\* the call has returned after three batches, the first two with a rejected item
C30_Witness ==
    /\ pc = "batch"
    /\ batching.outcome = "fulfilled"
    /\ Len(batching.batches) = 3
    /\ \A k \in 1..2 :
           \E item \in ItemsOf(batching.batches[k]) : batching.promises[item] = "rejected"

====
